---- MODULE Spec2Model ----
(***************************************************************************)
(* Model of the probe pipeline of azure-monitor-exporter (package probe):  *)
(* Probe.ServeHTTP -> GetConfigFromRequest -> Request.Collect ->           *)
(* getResources/queryResources/resourceGraphQuery -> fetchMetrics ->       *)
(* fetchMetricsPerSubscription, with the inventory API (resource graph)    *)
(* and the metrics API (QueryResources) as the environment.                *)
(*                                                                         *)
(* Representation.                                                         *)
(*  - A Go pointer is a sequence of length <= 1: Nil is <<>>, Ptr(x) is    *)
(*    <<x>>.                                                               *)
(*  - A Go map is a function whose DOMAIN is the set of keys present.      *)
(*  - A decoded JSON value is [t |-> "string" | "number", v |-> payload].  *)
(*  - The channel ch of Collect is a bag: its consumer (the registry's     *)
(*    Gather) is insensitive to order, and the order in which the Go maps  *)
(*    (regions, subscriptions, aggregation kinds) are ranged over is       *)
(*    unspecified.                                                         *)
(*  - time.Time is a natural number; the zero time.Time{} is 0 and every   *)
(*    timestamp of a data point is >= 1.                                   *)
(***************************************************************************)
EXTENDS Naturals, Integers, Sequences, FiniteSets, Bags, TLC

VARIABLES
    pc,             \* position of the request: "idle", "query_resources", "fetch_metrics", "done", "panic"
    request,        \* the inbound HTTP request (query parameters)
    config,         \* result of GetConfigFromRequest: Nil or Ptr(Config)
    skipToken,      \* queryResources: continuation token of the next inventory request
    resources,      \* queryResources: the Resources under assembly, then the inventory returned
    graphCalls,     \* log of inventory-API exchanges: <<[skipToken, response]>>
    todo,           \* fetchMetrics: (region, subscription) buckets not yet ranged over
    cur,            \* fetchMetricsPerSubscription: Nil or Ptr(its arguments and locals)
    metricsClients, \* Probe.metricsClientCache: region -> [value, expiration]
    metricsCalls,   \* log of metrics-API calls: <<[location, subscriptionID, resourceIDs, failed]>>
    lastResp,       \* the metrics-API response processed last (Nil before the first)
    ch,             \* bag of the metrics Collect has sent to its channel
    discovery,      \* outcome of getResources: "none", "ok", "error"
    fetch,          \* outcome of fetchMetrics: "none", "ok", "error"
    httpStatus,     \* status of the HTTP response (0 while the request is in progress)
    httpError,      \* text of an error response ("" when there is none)
    queryCache,     \* Probe.queryCache: key -> [value, expiration]
    now,            \* time.Now(), in seconds
    getResourcesCalls, \* log of the calls of getResources the probe has served
    missed,         \* getResources: Nil, or Ptr(when and on what cache its Get missed)
    header,         \* the request's X-Prometheus-Scrape-Timeout-Seconds header, as characters
    timeout,        \* getProbeTimeout: Nil or Ptr(the collection timeout in milliseconds)
    clientCalls,    \* log of the calls of getMetricsClient the probe has served
    tasks,          \* concurrent requests: task -> its position in getResources and its locals
    lock,           \* Cache.lock of the inventory cache: Nil or Ptr(the task that holds it)
    stored,         \* history: the entries Cache.Set has written, as [key, value, expiration]
    callers,        \* concurrent calls of getMetricsClient: caller -> its position and locals
    descs           \* metric names: Nil, or the tuples named side by side and their names

vars == <<pc, request, config, skipToken, resources, graphCalls, todo, cur,
          metricsClients, metricsCalls, lastResp, ch, discovery, fetch, httpStatus,
          httpError, queryCache, now, getResourcesCalls, missed, header, timeout,
          clientCalls, tasks, lock, stored, callers, descs>>

\* What outlives a request, other than the metrics clients.
probe == <<queryCache, now, getResourcesCalls, missed>>

\* The scrape timeout of the request.
deadline == <<header, timeout>>

\* The requests that run side by side on one probe.
concurrent == <<tasks, lock, stored, callers>>

\* The names built for the published metrics.
naming == <<descs>>

----------------------------------------------------------------------------
(* Pointers, maps, JSON values                                             *)

Nil == <<>>
Ptr(x) == <<x>>
Deref(p) == p[1]

Str(s) == [t |-> "string", v |-> s]
Num(n) == [t |-> "number", v |-> n]
IsString(j) == j.t = "string"

Min(a, b) == IF a < b THEN a ELSE b

RECURSIVE SeqSum(_)
SeqSum(s) == IF s = <<>> THEN 0 ELSE Head(s) + SeqSum(Tail(s))

RECURSIVE Flatten(_)
Flatten(ss) == IF ss = <<>> THEN <<>> ELSE Head(ss) \o Flatten(Tail(ss))

Range(s) == {s[i] : i \in DOMAIN s}

\* map[K]V{}
EmptyMap == [k \in {} |-> <<>>]

----------------------------------------------------------------------------
(* Bounds of the model                                                     *)

\* Most inventory pages one discovery pass is given.
MaxPages == 2

\* Most calls of getResources one probe is followed through.
MaxRequests == 2

\* Most steps of 30 seconds the clock takes.
MaxTicks == 2

\* Most calls of getMetricsClient one probe is followed through.
MaxClientCalls == 3

\* Most characters of the scrape-timeout header.
MaxHeaderLen == 3

\* const maxResourcesPerQuery = 50
maxResourcesPerQuery == 50

----------------------------------------------------------------------------
(* Probe configuration parser: GetConfigFromRequest                        *)

\* url.Values: query[p] of a parameter that was not sent is the nil slice.
Values(query, p) == IF p \in DOMAIN query THEN query[p] ELSE <<>>

\* url.Values.Get: the first value, "" when there is none.
Get(query, p) == IF Values(query, p) = <<>> THEN "" ELSE Values(query, p)[1]

\* strings.Join(values, ","): the values with a separator between neighbours.
JoinComma_noSeparator(values) == values

RECURSIVE JoinComma(_)
JoinComma(values) ==
    IF Len(values) <= 1 THEN values
    ELSE <<Head(values), ",">> \o JoinComma(Tail(values))

\* strconv.ParseInt(s, 10, 32) on the literals the requests of the model carry.
ParseInt32(s) ==
    CASE s = "5"          -> [ok |-> TRUE, v |-> 5]
      [] s = "0"          -> [ok |-> TRUE, v |-> 0]
      [] s = "2147483648" -> [ok |-> FALSE, v |-> 0]
      [] OTHER            -> [ok |-> FALSE, v |-> 0]

\* time.ParseDuration on the literals the requests of the model carry (seconds).
ParseDuration(s) ==
    CASE s = "1m"  -> [ok |-> TRUE, v |-> 60]
      [] s = "30s" -> [ok |-> TRUE, v |-> 30]
      [] s = "0s"  -> [ok |-> TRUE, v |-> 0]
      [] OTHER     -> [ok |-> FALSE, v |-> 0]

\* The characters the scrape-timeout header is written with.
HeaderChars == {"0", "1", "5", "-", "+", "."}

DigitValue(c) ==
    CASE c = "0" -> 0 [] c = "1" -> 1 [] c = "2" -> 2 [] c = "3" -> 3 [] c = "4" -> 4
      [] c = "5" -> 5 [] c = "6" -> 6 [] c = "7" -> 7 [] c = "8" -> 8 [] c = "9" -> 9
      [] OTHER   -> -1

\* int64 and uint64 values: four digits of 16 bits, the lowest first, negative
\* numbers in two's complement, so that sums and products wrap as Go's do.
Base == 65536

\* The int64 of a number of small magnitude.
RECURSIVE AddLimbs(_, _, _)
AddLimbs(a, b, carry) ==
    IF a = <<>> THEN <<>>
    ELSE LET sum == Head(a) + Head(b) + carry IN
         <<sum % Base>> \o AddLimbs(Tail(a), Tail(b), sum \div Base)

\* -n
Negate(w) == AddLimbs([i \in DOMAIN w |-> Base - 1 - w[i]], <<0, 0, 0, 0>>, 1)

Int64(n) ==
    IF n >= 0 THEN <<n % Base, n \div Base, 0, 0>>
    ELSE Negate(<<(0 - n) % Base, (0 - n) \div Base, 0, 0>>)

\* a + b, wrapping
Add(a, b) == AddLimbs(a, b, 0)

\* w * m + carry for a small m: the digits of the wrapped result, and what is
\* carried out of the 64 bits.
RECURSIVE MulLimbs(_, _, _)
MulLimbs(w, m, carry) ==
    IF w = <<>> THEN <<>>
    ELSE LET product == Head(w) * m + carry IN
         <<product % Base>> \o MulLimbs(Tail(w), m, product \div Base)

RECURSIVE MulCarry(_, _, _)
MulCarry(w, m, carry) ==
    IF w = <<>> THEN carry
    ELSE MulCarry(Tail(w), m, (Head(w) * m + carry) \div Base)

\* w * m, wrapping
Mul(w, m) == MulLimbs(w, m, 0)

\* w < 0 as an int64
IsNegative(w) == w[4] >= Base \div 2

\* 1<<63 - 1, -1<<63 and 1<<64 - 1
Int64Max == <<Base - 1, Base - 1, Base - 1, Base \div 2 - 1>>

Int64Min == <<0, 0, 0, Base \div 2>>

Uint64Max == <<Base - 1, Base - 1, Base - 1, Base - 1>>

\* strconv.ParseUint(s, 10, 64) from the value n read so far: the characters
\* are read from the left, and the first that is no digit (a syntax error) or
\* that takes the value out of 64 bits (a range error, with the largest uint64)
\* ends the parsing.
RECURSIVE ParseUint64(_, _)
ParseUint64(n, digits) ==
    IF digits = <<>> THEN [err |-> "", v |-> n]
    ELSE IF DigitValue(Head(digits)) < 0 THEN [err |-> "syntax", v |-> Int64(0)]
    ELSE IF MulCarry(n, 10, DigitValue(Head(digits))) # 0
    THEN [err |-> "range", v |-> Uint64Max]
    ELSE ParseUint64(MulLimbs(n, 10, DigitValue(Head(digits))), Tail(digits))

\* strconv.ParseInt(s, 10, 64): an optional sign and at least one decimal digit.
\* The value is 0 on a syntax error, and the int64 of the largest magnitude and
\* of the sign of s on a range error.
ParseInt64(s) ==
    LET signed == s # <<>> /\ Head(s) \in {"+", "-"}
        neg    == signed /\ Head(s) = "-"
        digits == IF signed THEN Tail(s) ELSE s
        un     == ParseUint64(Int64(0), digits)
    IN
    IF digits = <<>> \/ un.err = "syntax" THEN [ok |-> FALSE, v |-> Int64(0)]
    ELSE IF ~neg /\ IsNegative(un.v) THEN [ok |-> FALSE, v |-> Int64Max]
    ELSE IF neg /\ IsNegative(un.v) /\ un.v # Int64Min THEN [ok |-> FALSE, v |-> Int64Min]
    ELSE [ok |-> TRUE, v |-> IF neg THEN Negate(un.v) ELSE un.v]

\* time.Duration(timeout) * time.Millisecond, in nanoseconds
Millisecond(ms) == Mul(Mul(ms, 1000), 1000)

\* Probe.getProbeTimeout, a time.Duration in nanoseconds; `v` is the header,
\* <<>> when absent.
getProbeTimeout(v) ==
    LET parsed == IF v # <<>> THEN ParseInt64(v).v ELSE Int64(0)
        t      == IF parsed = Int64(0) THEN Int64(10) ELSE parsed
    IN Millisecond(Add(Mul(t, 1000), Int64(0 - 500)))

ConfigError(msg) == [err |-> msg, config |-> Nil]

\* if probeConfig.MetricPrefix == "" { probeConfig.MetricPrefix = "azure_monitor" }
DefaultMetricPrefix_none(prefix) == prefix

DefaultMetricPrefix(prefix) == IF prefix = "" THEN "azure_monitor" ELSE prefix

Subscriptions(query) ==
    IF Len(Values(query, "subscriptionID")) # 0 THEN Ptr(Values(query, "subscriptionID"))
    ELSE IF Len(Values(query, "subscriptionID[]")) # 0 THEN Ptr(Values(query, "subscriptionID[]"))
    ELSE Nil

MetricNames_plainOnly(query) == Values(query, "metricName")

MetricNames(query) ==
    IF Len(Values(query, "metricName")) # 0 THEN Values(query, "metricName")
    ELSE Values(query, "metricName[]")

Aggregation(query) ==
    CASE Len(Values(query, "aggregation")) = 1    -> Ptr(<<Get(query, "aggregation")>>)
      [] Len(Values(query, "aggregation")) > 1    -> Ptr(JoinComma(Values(query, "aggregation")))
      [] Len(Values(query, "aggregation[]")) = 1  -> Ptr(<<Get(query, "aggregation[]")>>)
      [] Len(Values(query, "aggregation[]")) > 1  -> Ptr(JoinComma(Values(query, "aggregation[]")))
      [] OTHER                                    -> Nil

\* A parameter that is copied when it appears once.
Once(query, p) == IF Len(Values(query, p)) = 1 THEN Ptr(Get(query, p)) ELSE Nil

GetConfigFromRequest(query) ==
    LET resourceType == Get(query, "resourceType")
        prefix       == IF Len(Values(query, "metricPrefix")) = 1
                        THEN Get(query, "metricPrefix") ELSE ""
        namespace    == Get(query, "metricNamespace")
        top          == ParseInt32(Get(query, "top"))
        expiration   == ParseDuration(Get(query, "queryCacheExpiration"))
    IN
    IF Len(Values(query, "resourceType")) # 1 \/ resourceType = ""
    THEN ConfigError("'resourceType' parameter must be specified once")
    ELSE IF MetricNames(query) = <<>>
    THEN ConfigError("'metricName' parameter must be specified")
    ELSE IF Len(Values(query, "interval")) > 1
    THEN ConfigError("'interval' parameter must be specified once")
    ELSE IF Len(Values(query, "filter")) > 1
    THEN ConfigError("'filter' parameter must be specified once")
    ELSE IF Len(Values(query, "metricPrefix")) > 1
    THEN ConfigError("'metricPrefix' parameter must be specified once")
    ELSE IF Len(Values(query, "metricNamespace")) > 1
    THEN ConfigError("'metricNamespace' parameter must be specified once")
    ELSE IF Len(Values(query, "top")) = 1 /\ ~top.ok
    THEN ConfigError("'top' parameter must be a number")
    ELSE IF Len(Values(query, "top")) > 1
    THEN ConfigError("'top' parameter must be specified once")
    ELSE IF Len(Values(query, "queryCacheExpiration")) = 1 /\ ~expiration.ok
    THEN ConfigError("'queryCacheExpiration' parameter must be a duration")
    ELSE IF Len(Values(query, "queryCacheExpiration")) > 1
    THEN ConfigError("'queryCacheExpiration' parameter must be specified once")
    ELSE
      [err |-> "",
       config |-> Ptr([
         Subscriptions   |-> Subscriptions(query),
         ResourceType    |-> resourceType,
         MetricNames     |-> MetricNames(query),
         Query           |-> IF Len(Values(query, "query")) = 1
                             THEN Get(query, "query") ELSE "Resources",
         Aggregation     |-> Aggregation(query),
         Interval        |-> Once(query, "interval"),
         Filter          |-> Once(query, "filter"),
         MetricPrefix    |-> DefaultMetricPrefix(prefix),
         MetricNamespace |-> IF namespace = "" THEN resourceType ELSE namespace,
         Top             |-> IF Len(Values(query, "top")) = 1 THEN Ptr(top.v) ELSE Nil,
         QueryCacheCacheExpiration |->
             IF Len(Values(query, "queryCacheExpiration")) = 1 THEN expiration.v ELSE 0])]

\* The requests the pipeline is driven with (TTL zero: the inventory cache is
\* bypassed on this path).
Requests ==
    { ("resourceType" :> <<"Microsoft.Compute/virtualMachines">>)
        @@ ("metricName" :> <<"m1", "m2">>),
      ("resourceType" :> <<"Microsoft.Compute/virtualMachines">>)
        @@ ("metricName[]" :> <<"m1">>) @@ ("metricNamespace" :> <<"Custom/ns">>)
        @@ ("metricPrefix" :> <<"custom">>),
      ("metricName" :> <<"m1">>),
      ("resourceType" :> <<"Microsoft.Compute/virtualMachines">>) }

\* A url.Values with the parameters that carry at least one value.
Query(params) == [p \in {q \in DOMAIN params : params[q] # <<>>} |-> params[p]]

\* What a request may carry next to resourceType and the metric names: nothing,
\* or one optional parameter once, empty, malformed or repeated, or both forms of
\* aggregation.
OptionalParameters ==
    { EmptyMap,
      "query" :> <<"Resources | where tags.env == 'prod'">>,
      "query" :> <<"Resources", "ResourceContainers">>,
      "interval" :> <<"PT1M">>,
      "interval" :> <<"PT1M", "PT5M">>,
      "filter" :> <<"Tier eq '*'">>,
      "filter" :> <<"Tier eq '*'", "Tier eq 'Hot'">>,
      "metricPrefix" :> <<"custom">>,
      "metricPrefix" :> <<"">>,
      "metricPrefix" :> <<"custom", "other">>,
      "metricNamespace" :> <<"Custom/ns">>,
      "metricNamespace" :> <<"">>,
      "metricNamespace" :> <<"Custom/ns", "custom/ns">>,
      "top" :> <<"5">>,
      "top" :> <<"abc">>,
      "top" :> <<"2147483648">>,
      "top" :> <<"5", "0">>,
      "queryCacheExpiration" :> <<"1m">>,
      "queryCacheExpiration" :> <<"0s">>,
      "queryCacheExpiration" :> <<"forever">>,
      "queryCacheExpiration" :> <<"1m", "30s">>,
      "subscriptionID" :> <<"sub1", "sub2">>,
      "subscriptionID[]" :> <<"sub2">>,
      "aggregation" :> <<"average">>,
      "aggregation" :> <<"average", "total">>,
      "aggregation" :> <<"total", "average", "count">>,
      "aggregation[]" :> <<"maximum">>,
      "aggregation[]" :> <<"maximum", "minimum">>,
      ("aggregation" :> <<"average">>) @@ ("aggregation[]" :> <<"maximum", "minimum">>),
      ("aggregation" :> <<"total", "count">>) @@ ("aggregation[]" :> <<"maximum">>),
      ("query" :> <<"Resources", "ResourceContainers">>) @@ ("top" :> <<"5", "0">>) }

\* The requests the parser is driven with.
ConfigRequests ==
    { Query(("resourceType" :> resourceType) @@ ("metricName" :> metricName)
              @@ ("metricName[]" :> metricNameList)) @@ optional :
        resourceType   \in { <<>>, <<"">>, <<"Microsoft.Compute/virtualMachines">>,
                             <<"Microsoft.Compute/virtualMachines",
                               "Microsoft.Storage/storageAccounts">> },
        metricName     \in { <<>>, <<"m1">>, <<"m1", "m2">> },
        metricNameList \in { <<>>, <<"m3">> },
        optional       \in OptionalParameters }


----------------------------------------------------------------------------
(* Resource discovery: resourceGraphQuery and queryResources               *)

Put(m, k, v) == [x \in DOMAIN m \cup {k} |-> IF x = k THEN v ELSE m[x]]

\* type Resources struct { Resources; AdditionalLabels }
EmptyResources == [Resources |-> EmptyMap, AdditionalLabels |-> EmptyMap]

\* if *response.Count == 0 { return nil, "", errors.New("... no rows returned") }
CountIsZero(response) == Deref(response.Count) = 0

\* resourceGraphQuery: the envelope checks on one inventory response.
\* Returns the rows and the continuation token, or an error.
resourceGraphQuery(response) ==
    IF response.err
    THEN [err |-> "error querying resource graph", rows |-> <<>>, skipToken |-> ""]
    ELSE IF response.ResultTruncated = Nil \/ response.Data = Nil \/ response.Count = Nil
    THEN [err |-> "unexpected response", rows |-> <<>>, skipToken |-> ""]
    ELSE IF CountIsZero(response)
    THEN [err |-> "no rows returned", rows |-> <<>>, skipToken |-> ""]
    ELSE IF ~Deref(response.Data).isArray
    THEN [err |-> "unexpected type", rows |-> <<>>, skipToken |-> ""]
    ELSE IF Len(Deref(response.Data).rows) = 0
    THEN [err |-> "no rows returned", rows |-> <<>>, skipToken |-> ""]
    ELSE [err |-> "", rows |-> Deref(response.Data).rows,
          skipToken |-> IF response.SkipToken # Nil THEN Deref(response.SkipToken) ELSE ""]

\* row[field].(string): fails on an absent key and on a value that is no string.
StringField(fields, field) ==
    IF field \in DOMAIN fields /\ IsString(fields[field])
    THEN [ok |-> TRUE, v |-> fields[field].v]
    ELSE [ok |-> FALSE, v |-> 0]

\* strings.HasPrefix(key, "label_") and key[6:], on the column names of the model.
HasLabelPrefix(key) == key \in {"label_env", "label_team"}

TrimLabelPrefix(key) ==
    CASE key = "label_env"  -> "env"
      [] key = "label_team" -> "team"
      [] OTHER              -> key

\* The resource ID appended for a row.
RowResourceID_firstRow(firstRow, resultRow) == StringField(firstRow.fields, "id")

RowResourceID(firstRow, resultRow) == StringField(resultRow.fields, "id")

\* The error the body of `for _, row := range response` returns on one row
\* ("" when the row is accepted).
RowError(firstRow, row) ==
    IF ~row.isMap THEN "unexpected row type"
    ELSE IF ~StringField(row.fields, "subscriptionId").ok THEN "unexpected subscriptionId type"
    ELSE IF ~StringField(row.fields, "location").ok THEN "unexpected location type"
    ELSE IF ~RowResourceID(firstRow, row).ok THEN "unexpected id type"
    ELSE IF Cardinality(DOMAIN row.fields) - 3 > 0
            /\ \E k \in DOMAIN row.fields : HasLabelPrefix(k) /\ ~IsString(row.fields[k])
    THEN "unexpected id type"
    ELSE ""

\* resources.AdditionalLabels[resourceID] as one row with extra columns sets it.
RowLabels_allColumns(row) ==
    [l \in {TrimLabelPrefix(k) : k \in DOMAIN row.fields \ {"subscriptionId", "location", "id"}} |->
        row.fields[CHOOSE k \in DOMAIN row.fields : TrimLabelPrefix(k) = l].v]

RowLabels(row) ==
    LET labelKeys == {k \in DOMAIN row.fields : HasLabelPrefix(k)} IN
    [l \in {TrimLabelPrefix(k) : k \in labelKeys} |->
        row.fields[CHOOSE k \in labelKeys : TrimLabelPrefix(k) = l].v]

\* for _, row := range response, on all rows of one page; acc is
\* [err, Resources, AdditionalLabels]. The loop returns at the first row that
\* fails a check. Otherwise every row appends its resource ID to the list of its
\* (location, subscriptionId) bucket, so a bucket grows by the IDs of its rows in
\* page order, and a row with extra columns replaces the label map of its ID, so
\* the last such row of an ID decides it.
Rows(acc, firstRow, rows) ==
    LET bad       == {i \in DOMAIN rows : RowError(firstRow, rows[i]) # ""}
        firstBad  == CHOOSE i \in bad : \A j \in bad : i <= j
        loc(i)    == rows[i].fields["location"].v
        sub(i)    == rows[i].fields["subscriptionId"].v
        id(i)     == RowResourceID(firstRow, rows[i]).v
        oldSubs(l) == IF l \in DOMAIN acc.Resources THEN DOMAIN acc.Resources[l] ELSE {}
        old(l, s) == IF s \in oldSubs(l) THEN acc.Resources[l][s] ELSE <<>>
        of(l, s)  == SelectSeq(rows, LAMBDA r : r.fields["location"].v = l
                                                /\ r.fields["subscriptionId"].v = s)
        added(l, s) == [i \in 1..Len(of(l, s)) |-> RowResourceID(firstRow, of(l, s)[i]).v]
        extra     == {i \in DOMAIN rows : Cardinality(DOMAIN rows[i].fields) - 3 > 0}
        last(r)   == CHOOSE i \in extra : id(i) = r /\ \A j \in extra : id(j) = r => j <= i
    IN
    IF bad # {} THEN [acc EXCEPT !.err = RowError(firstRow, rows[firstBad])]
    ELSE
      [err |-> "",
       Resources |->
           [l \in DOMAIN acc.Resources \cup {loc(i) : i \in DOMAIN rows} |->
               [s \in oldSubs(l) \cup {sub(i) : i \in {j \in DOMAIN rows : loc(j) = l}} |->
                   old(l, s) \o added(l, s)]],
       AdditionalLabels |->
           [r \in DOMAIN acc.AdditionalLabels \cup {id(i) : i \in extra} |->
               IF r \in {id(i) : i \in extra} THEN RowLabels(rows[last(r)])
               ELSE acc.AdditionalLabels[r]]]

\* One iteration of the loop of queryResources on the response to the request
\* carrying the current token: [err, resources, skipToken].
queryResources(res, response) ==
    LET page     == resourceGraphQuery(response)
        firstRow == page.rows[1]
        missing  == {f \in {"subscriptionId", "location", "id"} : f \notin DOMAIN firstRow.fields}
        filled   == Rows([err |-> "", Resources |-> res.Resources,
                          AdditionalLabels |-> res.AdditionalLabels], firstRow, page.rows)
        failed(msg) == [err |-> msg, resources |-> EmptyResources, skipToken |-> ""]
    IN
    IF page.err # "" THEN failed(page.err)
    ELSE IF ~firstRow.isMap THEN failed("unexpected type")
    ELSE IF missing # {} THEN failed("missing field")
    ELSE IF filled.err # "" THEN failed(filled.err)
    ELSE [err |-> "",
          resources |-> [Resources |-> filled.Resources,
                         AdditionalLabels |-> filled.AdditionalLabels],
          skipToken |-> page.skipToken]


----------------------------------------------------------------------------
(* Metric batch fetcher: fetchMetricsPerSubscription                       *)

Kinds == {"total", "average", "count", "minimum", "maximum"}

\* latestMetric = map[string]*float64{"total": nil, ...}
NoMetric == [k \in Kinds |-> Nil]

\* The five aggregation pointers of one azmetrics.MetricValue.
PointValues(data) ==
    [k \in Kinds |->
        CASE k = "total"   -> data.Total
          [] k = "average" -> data.Average
          [] k = "count"   -> data.Count
          [] k = "minimum" -> data.Minimum
          [] k = "maximum" -> data.Maximum]

\* strings.ReplaceAll(strings.ReplaceAll(strings.ToLower(ns), ".", "_"), "/", "_")
SanitizeNamespace(ns) ==
    CASE ns \in {"microsoft.compute/virtualmachines", "Microsoft.Compute/virtualMachines"}
              -> "microsoft_compute_virtualmachines"
      [] ns \in {"Custom/ns", "custom/ns"} -> "custom_ns"
      [] OTHER -> ns

\* strings.ReplaceAll(strings.ToLower(name), " ", "")
SanitizeName(name) ==
    CASE name = "VmAvailabilityMetric" -> "vmavailabilitymetric"
      [] name = "Percentage CPU"       -> "percentagecpu"
      [] OTHER                         -> name

\* strings.ToLower(string(unit))
SanitizeUnit(unit) ==
    CASE unit = "Count"   -> "count"
      [] unit = "Percent" -> "percent"
      [] OTHER            -> unit

\* The same three conversions and the joining of the name, on strings written
\* as sequences of characters.
UpperCase == <<"A", "B", "C", "D", "E", "F", "G", "H", "I", "J", "K", "L", "M",
               "N", "O", "P", "Q", "R", "S", "T", "U", "V", "W", "X", "Y", "Z">>

LowerCase == <<"a", "b", "c", "d", "e", "f", "g", "h", "i", "j", "k", "l", "m",
               "n", "o", "p", "q", "r", "s", "t", "u", "v", "w", "x", "y", "z">>

\* strings.ToLower
ToLower(str) ==
    [i \in DOMAIN str |->
        IF \E u \in DOMAIN UpperCase : UpperCase[u] = str[i]
        THEN LowerCase[CHOOSE u \in DOMAIN UpperCase : UpperCase[u] = str[i]]
        ELSE str[i]]

\* strings.ReplaceAll(str, old, new) for a one-character old.
RECURSIVE ReplaceAll(_, _, _)
ReplaceAll(str, old, new) ==
    IF str = <<>> THEN <<>>
    ELSE (IF Head(str) = old THEN new ELSE <<Head(str)>>) \o ReplaceAll(Tail(str), old, new)

\* prometheus.BuildFQName(namespace, subsystem, name)
BuildFQName(namespace, subsystem, name) ==
    IF name = <<>> THEN <<>>
    ELSE IF namespace # <<>> /\ subsystem # <<>>
    THEN namespace \o <<"_">> \o subsystem \o <<"_">> \o name
    ELSE IF namespace # <<>> THEN namespace \o <<"_">> \o name
    ELSE IF subsystem # <<>> THEN subsystem \o <<"_">> \o name
    ELSE name

\* "azure_monitor_" + strings.ReplaceAll(strings.ReplaceAll(strings.ToLower(ns), ".", "_"), "/", "_")
prometheusMetricNamespace(namespace) ==
    <<"a", "z", "u", "r", "e", "_", "m", "o", "n", "i", "t", "o", "r", "_">>
       \o ReplaceAll(ReplaceAll(ToLower(namespace), ".", <<"_">>), "/", <<"_">>)

\* The first argument of prometheus.NewDesc for one sample.
MetricFQName(namespace, name, metricType, unit) ==
    BuildFQName(prometheusMetricNamespace(namespace),
                ReplaceAll(ToLower(name), " ", <<>>),
                metricType \o <<"_">> \o ToLower(unit))

\* maxResourceIDs: the length of the next batch.
maxResourceIDs_offByOne(resourceIDs) ==
    IF Len(resourceIDs) < maxResourcesPerQuery + 1
    THEN Len(resourceIDs) ELSE maxResourcesPerQuery + 1

maxResourceIDs(resourceIDs) ==
    IF Len(resourceIDs) < maxResourcesPerQuery
    THEN Len(resourceIDs) ELSE maxResourcesPerQuery

\* requestResourceIDs := resourceIDs[:maxResourceIDs]
requestResourceIDs(resourceIDs) == SubSeq(resourceIDs, 1, maxResourceIDs(resourceIDs))

\* resourceIDs = resourceIDs[maxResourceIDs:]
remainingResourceIDs_skipOne(resourceIDs) ==
    SubSeq(resourceIDs, maxResourceIDs(resourceIDs) + 2, Len(resourceIDs))

remainingResourceIDs(resourceIDs) ==
    SubSeq(resourceIDs, maxResourceIDs(resourceIDs) + 1, Len(resourceIDs))

\* if data.TimeStamp.After(latestTimestamp) { latestTimestamp, latestMetric = ... }
\* acc is [labels, latestTimestamp, latestMetric, out].
Data(acc, data) ==
    IF data.TimeStamp > acc.latestTimestamp
    THEN [acc EXCEPT !.latestTimestamp = data.TimeStamp, !.latestMetric = PointValues(data)]
    ELSE acc

RECURSIVE TimeSeriesData(_, _)
TimeSeriesData(acc, points) ==
    IF points = <<>> THEN acc
    ELSE TimeSeriesData(Data(acc, Head(points)), Tail(points))

\* for _, metricTimeSeries := range metricValue.TimeSeries { for _, data := range ... }
RECURSIVE TimeSeries(_, _)
TimeSeries(acc, series) ==
    IF series = <<>> THEN acc
    ELSE TimeSeries(TimeSeriesData(acc, Head(series).Data), Tail(series))

\* for _, label := range metricValue.TimeSeries[0].MetadataValues
MetadataValues_dropped(labels, metadata) == labels

RECURSIVE MetadataValues(_, _)
MetadataValues(labels, metadata) ==
    IF metadata = <<>> THEN labels
    ELSE MetadataValues(Put(labels, Head(metadata).Name, Head(metadata).Value), Tail(metadata))

\* The const metric sent for one aggregation kind of one metric entity.
Sample(namespace, metricValue, metricType, labels, value) ==
    [type   |-> "sample",
     fqName |-> <<"azure_monitor", SanitizeNamespace(namespace),
                  SanitizeName(metricValue.Name), metricType, SanitizeUnit(metricValue.Unit)>>,
     help   |-> <<metricValue.LocalizedValue, metricValue.DisplayDescription>>,
     labels |-> labels,
     value  |-> value]

\* if metricValue.ErrorCode != nil && *metricValue.ErrorCode != "Success" { continue }
ErrorCodeSkips_never(metricValue) == FALSE

ErrorCodeSkips(metricValue) ==
    metricValue.ErrorCode # Nil /\ Deref(metricValue.ErrorCode) # "Success"

\* for metricType, value := range latestMetric { if value == nil { continue } ... }
EmittedKinds(latestMetric) == {t \in Kinds : latestMetric[t] # Nil}

\* The body of `for _, metricValue := range metric.Values` for one metric entity.
MetricValue(acc, namespace, metricValue) ==
    IF ErrorCodeSkips(metricValue) THEN acc
    ELSE IF Len(metricValue.TimeSeries) = 0 THEN acc
    ELSE
    LET labelled == [acc EXCEPT
                        !.labels = MetadataValues(@, metricValue.TimeSeries[1].MetadataValues)]
        scanned  == TimeSeries(labelled, metricValue.TimeSeries)
    IN [scanned EXCEPT !.out = @ (+) SetToBag(
            {Sample(namespace, metricValue, k, scanned.labels, Deref(scanned.latestMetric[k])) :
                k \in EmittedKinds(scanned.latestMetric)})]

RECURSIVE MetricValues(_, _, _)
MetricValues(acc, namespace, values) ==
    IF values = <<>> THEN acc
    ELSE MetricValues(MetricValue(acc, namespace, Head(values)), namespace, Tail(values))

\* The body of `for _, metric := range resp.Values` for the metrics of one resource:
\* the bag of samples it sends.
Metric(subscriptionID, additionalLabels, metric) ==
    LET extra  == IF metric.ResourceID \in DOMAIN additionalLabels
                  THEN additionalLabels[metric.ResourceID] ELSE EmptyMap
        base   == ("subscription_id" :> subscriptionID)
                    @@ ("region" :> metric.ResourceRegion)
                    @@ ("instance" :> metric.ResourceID)
        labels == [l \in DOMAIN base \cup DOMAIN extra |->
                      IF l \in DOMAIN extra THEN extra[l] ELSE base[l]]
    IN MetricValues([labels |-> labels, latestTimestamp |-> 0,
                     latestMetric |-> NoMetric, out |-> EmptyBag],
                    metric.Namespace, metric.Values).out

\* for _, metric := range resp.Values: everything sent for one response (the
\* resources are independent of each other; the sequence is summed by halves).
RECURSIVE ResponseValues(_, _, _)
ResponseValues(subscriptionID, additionalLabels, values) ==
    IF values = <<>> THEN EmptyBag
    ELSE IF Len(values) = 1 THEN Metric(subscriptionID, additionalLabels, values[1])
    ELSE LET half == Len(values) \div 2 IN
         ResponseValues(subscriptionID, additionalLabels, SubSeq(values, 1, half))
           (+) ResponseValues(subscriptionID, additionalLabels,
                              SubSeq(values, half + 1, Len(values)))

\* The response as the SDK hands it over: every scalar field of MetricData,
\* Metric, LocalizableString, MetadataValue and MetricValue is a pointer, nil
\* when the answer lacks the field. The operators above work on the fields
\* behind the pointers; ValueOf is the field behind one ("" behind nil, which
\* no operator reads unless the dereference below has succeeded).
ValueOf(p) == IF p = Nil THEN "" ELSE Deref(p)

DecodedName(name, field) == IF name = Nil THEN "" ELSE ValueOf(Deref(name)[field])

DecodedSeries(series) ==
    [i \in DOMAIN series |->
        [MetadataValues |->
            [j \in DOMAIN series[i].MetadataValues |->
                [Name  |-> DecodedName(series[i].MetadataValues[j].Name, "Value"),
                 Value |-> ValueOf(series[i].MetadataValues[j].Value)]],
         Data |->
            [j \in DOMAIN series[i].Data |->
                [series[i].Data[j] EXCEPT
                    !.TimeStamp = IF @ = Nil THEN 0 ELSE Deref(@)]]]]

DecodedMetric(metricValue) ==
    [Name               |-> DecodedName(metricValue.Name, "Value"),
     LocalizedValue     |-> DecodedName(metricValue.Name, "LocalizedValue"),
     Unit               |-> ValueOf(metricValue.Unit),
     DisplayDescription |-> ValueOf(metricValue.DisplayDescription),
     ErrorCode          |-> metricValue.ErrorCode,
     ErrorMessage       |-> metricValue.ErrorMessage,
     TimeSeries         |-> DecodedSeries(metricValue.TimeSeries)]

DecodedResponse(resp) ==
    [err |-> resp.err,
     Values |-> [i \in DOMAIN resp.Values |->
        [Namespace      |-> ValueOf(resp.Values[i].Namespace),
         ResourceRegion |-> ValueOf(resp.Values[i].ResourceRegion),
         ResourceID     |-> ValueOf(resp.Values[i].ResourceID),
         Values         |-> [j \in DOMAIN resp.Values[i].Values |->
                                DecodedMetric(resp.Values[i].Values[j])]]]]

\* prometheusLabels[*label.Name.Value] = *label.Value: a nil pointer panics.
MetadataPanics(metadata) ==
    \E i \in DOMAIN metadata :
        \/ metadata[i].Name = Nil
        \/ Deref(metadata[i].Name).Value = Nil
        \/ metadata[i].Value = Nil

\* data.TimeStamp.After(latestTimestamp): the method has a value receiver, so
\* a nil *time.Time panics.
DataPanics(series) ==
    \E i \in DOMAIN series : \E j \in DOMAIN series[i].Data :
        series[i].Data[j].TimeStamp = Nil

\* *metricValue.Name.Value, *metricValue.Unit, *metricValue.Name.LocalizedValue
\* and *metricValue.DisplayDescription, the arguments of prometheus.NewDesc.
DescPanics(metricValue) ==
    \/ metricValue.Name = Nil
    \/ Deref(metricValue.Name).Value = Nil
    \/ Deref(metricValue.Name).LocalizedValue = Nil
    \/ metricValue.Unit = Nil
    \/ metricValue.DisplayDescription = Nil

\* fmt.Sprintf("%s: %s", *metricValue.ErrorCode, *metricValue.ErrorMessage), the
\* argument of the warning logged for an entity with an error code.
ErrorMessagePanics(metricValue) == metricValue.ErrorMessage = Nil

\* `for _, metricValue := range metric.Values` on the entities as the SDK hands
\* them over: acc carries the labels, latestTimestamp, latestMetric and the
\* samples sent from entity to entity; the loop ends at the first nil pointer it
\* dereferences, the samples of the entities before it already sent. The
\* arguments of NewDesc are read before the first sample of an entity is sent.
RECURSIVE MetricValuesUpstream(_, _, _)
MetricValuesUpstream(acc, namespace, values) ==
    IF values = <<>> THEN acc
    ELSE
    LET metricValue == Head(values)
        scanned     == TimeSeries(acc, DecodedSeries(metricValue.TimeSeries))
    IN
    IF ErrorCodeSkips(metricValue)
    THEN IF ErrorMessagePanics(metricValue) THEN [acc EXCEPT !.panicked = TRUE]
         ELSE MetricValuesUpstream(acc, namespace, Tail(values))
    ELSE IF Len(metricValue.TimeSeries) = 0
    THEN MetricValuesUpstream(acc, namespace, Tail(values))
    ELSE IF \/ MetadataPanics(metricValue.TimeSeries[1].MetadataValues)
            \/ DataPanics(metricValue.TimeSeries)
            \/ EmittedKinds(scanned.latestMetric) # {} /\ DescPanics(metricValue)
    THEN [acc EXCEPT !.panicked = TRUE]
    ELSE MetricValuesUpstream(MetricValue(acc, namespace, DecodedMetric(metricValue)),
                              namespace, Tail(values))

\* The body of `for _, metric := range resp.Values` for the metrics of one
\* resource as the SDK hands them over: whether it dereferences a nil pointer
\* (*metric.Namespace, *metric.ResourceRegion, *metric.ResourceID, or one inside
\* the loop over the entities) and the samples it has sent by then.
MetricUpstream(subscriptionID, additionalLabels, metric) ==
    IF metric.Namespace = Nil \/ metric.ResourceRegion = Nil \/ metric.ResourceID = Nil
    THEN [panicked |-> TRUE, out |-> EmptyBag]
    ELSE
    LET id     == Deref(metric.ResourceID)
        extra  == IF id \in DOMAIN additionalLabels THEN additionalLabels[id] ELSE EmptyMap
        base   == ("subscription_id" :> subscriptionID)
                    @@ ("region" :> Deref(metric.ResourceRegion))
                    @@ ("instance" :> id)
        labels == [l \in DOMAIN base \cup DOMAIN extra |->
                      IF l \in DOMAIN extra THEN extra[l] ELSE base[l]]
        ran    == MetricValuesUpstream([labels |-> labels, latestTimestamp |-> 0,
                                        latestMetric |-> NoMetric, out |-> EmptyBag,
                                        panicked |-> FALSE],
                                       Deref(metric.Namespace), metric.Values)
    IN [panicked |-> ran.panicked, out |-> ran.out]

\* `for _, metric := range resp.Values` on the response as the SDK hands it
\* over, resource after resource up to the first nil pointer dereferenced.
RECURSIVE ResponseUpstream(_, _, _)
ResponseUpstream(subscriptionID, additionalLabels, values) ==
    IF values = <<>> THEN [panicked |-> FALSE, out |-> EmptyBag]
    ELSE
    LET first == MetricUpstream(subscriptionID, additionalLabels, Head(values)) IN
    IF first.panicked THEN first
    ELSE LET rest == ResponseUpstream(subscriptionID, additionalLabels, Tail(values)) IN
         [panicked |-> rest.panicked, out |-> first.out (+) rest.out]


----------------------------------------------------------------------------
(* Inventory cache: cache.Cache and Request.getResources                   *)

\* The subscriptions the probe was started with (Probe.subscriptions).
ProbeSubscriptions == <<"sub1", "sub2">>

\* Set: c.data[key] = cacheValue{value, time.Now().Add(expiration)}, at time t.
CacheSet_noTTL(cache, key, value, expiration, t) ==
    Put(cache, key, [value |-> value, expiration |-> t])

CacheSet(cache, key, value, expiration, t) ==
    Put(cache, key, [value |-> value, expiration |-> t + expiration])

\* time.Now().After(value.expiration), at time t.
Expired_never(entry, t) == FALSE

Expired(entry, t) == t > entry.expiration

\* Get at time t: a missing or expired entry is deleted and reported as a miss.
CacheGet(cache, key, t) ==
    IF key \notin DOMAIN cache \/ Expired(cache[key], t)
    THEN [cache |-> [k \in DOMAIN cache \ {key} |-> cache[k]], value |-> Nil, ok |-> FALSE]
    ELSE [cache |-> cache, value |-> Ptr(cache[key].value), ok |-> TRUE]

\* subscriptions := r.probe.subscriptions; if r.config.Subscriptions != nil { ... }
RequestSubscriptions(cfg) ==
    IF cfg.Subscriptions # Nil THEN Deref(cfg.Subscriptions) ELSE ProbeSubscriptions

\* queryResources: subscriptions := r.probe.subscriptions; if r.config.Subscriptions
\* != nil { subscriptions = r.config.Subscriptions }
QueryScope_fallback(cfg) == ProbeSubscriptions

QueryScope(cfg) ==
    IF cfg.Subscriptions # Nil THEN Deref(cfg.Subscriptions) ELSE ProbeSubscriptions

\* One exchange with the inventory API: the armresourcegraph.QueryRequest, as far
\* as it varies, and the answer.
QueryRequest(subscriptions, token, response) ==
    [skipToken |-> token, subscriptions |-> subscriptions, response |-> response]

\* cacheKey: the hex sha256 of "<query>-<resourceType>-<subscriptions joined by ,>";
\* the digest is kept as the text it was taken of.
CacheKey(cfg) ==
    [sha256 |-> <<cfg.Query, "-", cfg.ResourceType, "-">>
                    \o JoinComma(RequestSubscriptions(cfg))]

\* if r.config.QueryCacheCacheExpiration == 0 { resources, err := r.queryResources(ctx) ... }
BypassesCache_never(cfg) == FALSE

BypassesCache(cfg) == cfg.QueryCacheCacheExpiration = 0

\* The loop of queryResources over the answers of one discovery pass: it ends on
\* the first error and on the first empty continuation token. calls is the log of
\* the exchanges so far, r the outcome of the iteration on the first response.
QueryResourcesNext_partial(r, responses, made, subscriptions) ==
    [err |-> r.err, resources |-> Ptr(r.resources), calls |-> made]

RECURSIVE QueryResourcesLoop(_, _, _, _, _)
RECURSIVE QueryResourcesNext(_, _, _, _)
QueryResourcesNext(r, responses, made, subscriptions) ==
    IF r.err # "" THEN [err |-> r.err, resources |-> Nil, calls |-> made]
    ELSE IF r.skipToken = "" \/ Len(responses) = 1
    THEN [err |-> "", resources |-> Ptr(r.resources), calls |-> made]
    ELSE QueryResourcesLoop(r.resources, r.skipToken, Tail(responses), made, subscriptions)

QueryResourcesLoop(res, token, responses, calls, subscriptions) ==
    QueryResourcesNext(queryResources(res, Head(responses)), responses,
                       Append(calls, QueryRequest(subscriptions, token, Head(responses))),
                       subscriptions)

\* r.probe.queryCache.Set(cacheKey, resources, r.config.QueryCacheCacheExpiration)
StoreResources_ifAbsent(cache, cfg, inventory, t) ==
    IF CacheKey(cfg) \in DOMAIN cache THEN cache
    ELSE CacheSet(cache, CacheKey(cfg), inventory, cfg.QueryCacheCacheExpiration, t)

StoreResources(cache, cfg, inventory, t) ==
    CacheSet(cache, CacheKey(cfg), inventory, cfg.QueryCacheCacheExpiration, t)

\* getResources when its Get answered got with ok: `if ok { return resources, nil }`.
HitResources(got) ==
    [err |-> "", resources |-> got.value, calls |-> <<>>, hit |-> TRUE, cache |-> got.cache]

\* getResources past a miss: ran is the outcome of queryResources, cache the
\* cache and t the time when queryResources has returned, which is when Set
\* is called and reads the clock.
MissedResources(cfg, t, cache, ran) ==
    IF ran.err # ""
    THEN [err |-> ran.err, resources |-> Nil, calls |-> ran.calls, hit |-> FALSE,
          cache |-> cache]
    ELSE [err |-> "", resources |-> ran.resources, calls |-> ran.calls, hit |-> FALSE,
          cache |-> StoreResources(cache, cfg, Deref(ran.resources), t)]

\* getResources with a zero TTL: queryResources, the cache left alone.
UncachedResources(cache, ran) ==
    [err |-> ran.err, resources |-> ran.resources, calls |-> ran.calls,
     hit |-> FALSE, cache |-> cache]


\* Requests served side by side: each runs getResources as a task of its own, and
\* the steps of the tasks interleave at the calls of the cache and of the
\* inventory API.
MaxTasks == 2

TaskIds == 1..MaxTasks

\* A task before its request: config is the request's Config, looked what Get read
\* from the map, ran the outcome of the task's own queryResources, resources and
\* err what getResources returns.
IdleTask ==
    [pc |-> "idle", config |-> Nil, looked |-> Nil, ran |-> Nil, resources |-> Nil,
     err |-> ""]

\* c.lock.Lock() returns when no task holds the mutex.
TryLock_unguarded(holder) == TRUE

TryLock(holder) == holder = Nil

\* value, ok := c.data[key]
Lookup(cache, key) ==
    IF key \in DOMAIN cache THEN [ok |-> TRUE, entry |-> Ptr(cache[key])]
    ELSE [ok |-> FALSE, entry |-> Nil]

\* Get from `if !ok || time.Now().After(value.expiration)` on, at time t, with
\* what the lookup read.
GetAfterLookup(cache, key, looked, t) ==
    IF ~looked.ok \/ Expired(Deref(looked.entry), t)
    THEN [cache |-> [k \in DOMAIN cache \ {key} |-> cache[k]], value |-> Nil, ok |-> FALSE]
    ELSE [cache |-> cache, value |-> Ptr(Deref(looked.entry).value), ok |-> TRUE]

----------------------------------------------------------------------------
(* Metrics clients: Probe.getMetricsClient                                 *)

\* math.MaxInt64 as a time.Duration is about 292 years, in seconds more than a
\* 32-bit integer holds; the model takes 2 * 10^9 seconds (63 years),
\* which like the real value lies beyond every time a probe is followed to.
MaxInt64 == 2000000000

\* The client azmetrics.NewClient returns for a region when it succeeds: a new
\* object at every construction, told apart by the number of the construction.
NewClient(location, serial) ==
    [endpoint |-> <<"https://", location, ".metrics.monitor.azure.com">>,
     serial   |-> serial]

\* What azmetrics.NewClient may return as its error ("" for none).
NewClientErrors == {"", "provided Cloud field is missing Azure Monitor Metrics configuration"}

\* p.metricsClientCache.Set(location, client, math.MaxInt64), at time t.
StoreClient(cache, location, client, t) == CacheSet(cache, location, client, MaxInt64, t)

\* What is kept of the Get of a call of getMetricsClient, made at time t: the
\* cache it looked into and the number of calls that had returned by then.
ClientLookup(t, before, calls) == Ptr([at |-> t, before |-> before, seen |-> Len(calls)])

\* The entry of the log for a call of getMetricsClient that returns at time t:
\* got is what it kept of its Get, during the cache when azmetrics.NewClient
\* was called (Nil when it was not), wrote whether the call has called Set,
\* after the cache when it returns.
ClientCall(location, got, t, during, err, client, wrote, after) ==
    [location |-> location, at |-> Deref(got).at, seen |-> Deref(got).seen,
     returned |-> t, constructed |-> during # Nil, during |-> during, err |-> err,
     client |-> client, wrote |-> wrote, before |-> Deref(got).before, after |-> after]

\* Calls of getMetricsClient that run side by side (the fetches of requests
\* served at once): each caller is between its calls, past a Get that missed,
\* or past azmetrics.NewClient with the client to store.
MaxCallers == 2

CallerIds == 1..MaxCallers

\* A caller between two calls. location is the region asked for, got what it
\* kept of its Get, during the cache when it called azmetrics.NewClient, client
\* what that call returned.
IdleCaller ==
    [pc |-> "idle", location |-> "", got |-> Nil, during |-> Nil, client |-> Nil]

----------------------------------------------------------------------------
(* The environment: what the inventory API and the metrics API answer      *)

Locations == {"westeurope", "eastus"}

\* Rows an inventory page is made of: n consecutive rows of one bucket. A page
\* either carries resources not seen before or repeats the rows sent first. A
\* labelled row has a label_ column and a projected column that is not one.
PageShapes ==
    { [location |-> "westeurope", subscriptionId |-> "sub1", n |-> 1,  repeat |-> FALSE, labelled |-> FALSE],
      [location |-> "westeurope", subscriptionId |-> "sub1", n |-> 2,  repeat |-> FALSE, labelled |-> TRUE],
      [location |-> "westeurope", subscriptionId |-> "sub1", n |-> 50, repeat |-> FALSE, labelled |-> FALSE],
      [location |-> "westeurope", subscriptionId |-> "sub1", n |-> 51, repeat |-> FALSE, labelled |-> FALSE],
      [location |-> "westeurope", subscriptionId |-> "sub2", n |-> 1,  repeat |-> FALSE, labelled |-> FALSE],
      [location |-> "eastus",     subscriptionId |-> "sub1", n |-> 2,  repeat |-> FALSE, labelled |-> FALSE],
      [location |-> "westeurope", subscriptionId |-> "sub1", n |-> 1,  repeat |-> TRUE,  labelled |-> FALSE] }

GoodRow(location, subscriptionId, id, labelled) ==
    [isMap |-> TRUE,
     fields |-> ("subscriptionId" :> Str(subscriptionId)) @@ ("location" :> Str(location))
                  @@ ("id" :> Str(id))
                  @@ (IF labelled THEN ("label_env" :> Str("prod")) @@ ("tags" :> Num("t"))
                      ELSE EmptyMap)]

PageRows(shape, nextFresh) ==
    [i \in 1..shape.n |->
        GoodRow(shape.location, shape.subscriptionId,
                (IF shape.repeat THEN 0 ELSE nextFresh - 1) + i, shape.labelled)]

\* Rows that fail the row checks of queryResources.
BadPages ==
    { <<[isMap |-> FALSE, fields |-> EmptyMap]>>,
      <<[isMap |-> TRUE, fields |-> ("subscriptionId" :> Str("sub1")) @@ ("location" :> Str("westeurope"))]>>,
      <<GoodRow("westeurope", "sub1", 1, FALSE),
        [isMap |-> TRUE, fields |-> ("subscriptionId" :> Str("sub1")) @@ ("location" :> Num("westeurope"))
                                      @@ ("id" :> Str(2))]>>,
      <<[isMap |-> TRUE, fields |-> ("subscriptionId" :> Str("sub1")) @@ ("location" :> Str("westeurope"))
                                      @@ ("id" :> Str(1)) @@ ("label_env" :> Num("prod"))]>> }

TokenOf(k) ==
    CASE k = 1 -> "tok1" [] k = 2 -> "tok2" [] k = 3 -> "tok3" [] OTHER -> "tokN"

Envelope(rows, count, token) ==
    [err |-> FALSE, ResultTruncated |-> Ptr("false"), Count |-> Ptr(count),
     Data |-> Ptr([isArray |-> TRUE, rows |-> rows]), SkipToken |-> token]

\* The answers of the inventory API to the k-th request of a discovery pass that
\* has received `received` rows so far. A continuation token is handed out only
\* while fewer than MaxPages pages were sent; a last page comes without a token
\* and, for the one-row pages, also with an empty one.
GraphResponses(k, received) ==
    LET tokens == {Nil} \cup (IF k < MaxPages THEN {Ptr(TokenOf(k))} ELSE {})
    IN  {Envelope(PageRows(shape, received + 1), shape.n, token) :
            shape \in PageShapes, token \in tokens}
        \cup {Envelope(PageRows(shape, received + 1), shape.n, Ptr("")) :
                  shape \in {p \in PageShapes : p.n = 1}}
        \cup {Envelope(rows, Len(rows), Nil) : rows \in BadPages}
        \cup { [Envelope(<<>>, 0, Nil) EXCEPT !.err = TRUE],
               [Envelope(<<>>, 1, Nil) EXCEPT !.ResultTruncated = Nil],
               [Envelope(<<>>, 1, Nil) EXCEPT !.Data = Nil],
               [Envelope(<<>>, 1, Nil) EXCEPT !.Count = Nil],
               [Envelope(<<GoodRow("westeurope", "sub1", received + 1, FALSE)>>, 1, Nil)
                    EXCEPT !.ResultTruncated = Ptr("true")],
               [Envelope(<<>>, 1, Nil) EXCEPT !.Data = Ptr([isArray |-> FALSE, rows |-> <<>>])],
               Envelope(<<>>, 1, Nil),
               Envelope(<<>>, 0, Nil),
               [Envelope(<<>>, 0, Nil) EXCEPT !.Data = Nil],
               Envelope(<<GoodRow("westeurope", "sub1", received + 1, FALSE)>>, 0, Nil) }

\* The answers of the inventory API to one discovery pass of a probe that is
\* followed over several requests: a failed call, one page of one row, and two
\* pages.
DiscoveryPasses ==
    { <<[Envelope(<<>>, 0, Nil) EXCEPT !.err = TRUE]>>,
      <<Envelope(<<GoodRow("westeurope", "sub1", 1, FALSE)>>, 1, Nil)>>,
      <<Envelope(<<GoodRow("westeurope", "sub1", 1, FALSE)>>, 1, Ptr(TokenOf(1))),
        Envelope(<<GoodRow("westeurope", "sub1", 3, FALSE)>>, 1, Nil)>> }

\* The requests a probe with an inventory cache is driven with: with and without
\* a TTL, with the subscriptions left out, listed, and listed in another order.
CacheRequests ==
    LET base == ("resourceType" :> <<"Microsoft.Compute/virtualMachines">>)
                  @@ ("metricName" :> <<"m1">>)
    IN
    { base,
      base @@ ("queryCacheExpiration" :> <<"1m">>) @@ ("subscriptionID" :> <<"sub1", "sub2">>),
      base @@ ("queryCacheExpiration" :> <<"1m">>) @@ ("subscriptionID" :> <<"sub2", "sub1">>),
      base @@ ("queryCacheExpiration" :> <<"0s">>),
      base @@ ("queryCacheExpiration" :> <<"30s">>)
           @@ ("query" :> <<"Resources | where tags.env == 'prod'">>),
      ("metricName" :> <<"m1">>) @@ ("queryCacheExpiration" :> <<"1m">>) }

\* Discovery passes that fail: on the first call; on a first page that lacks the
\* id; and, after a first page that was accepted, on the call for the second
\* page, on a second page whose data is no array, and on a second page with a
\* location that is no string.
FailedPasses ==
    LET first == Envelope(<<GoodRow("westeurope", "sub1", 1, FALSE)>>, 1, Ptr(TokenOf(1)))
    IN
    { <<[Envelope(<<>>, 0, Nil) EXCEPT !.err = TRUE]>>,
      <<Envelope(<<[isMap |-> TRUE,
                    fields |-> ("subscriptionId" :> Str("sub1"))
                                 @@ ("location" :> Str("westeurope"))]>>, 1, Nil)>>,
      <<first, [Envelope(<<>>, 0, Nil) EXCEPT !.err = TRUE]>>,
      <<first, [Envelope(<<>>, 1, Nil) EXCEPT !.Data = Ptr([isArray |-> FALSE, rows |-> <<>>])]>>,
      <<first, Envelope(<<[isMap |-> TRUE,
                           fields |-> ("subscriptionId" :> Str("sub1"))
                                        @@ ("location" :> Num("westeurope"))
                                        @@ ("id" :> Str(2))]>>, 1, Nil)>> }

\* The passes a probe that retries after a failure is answered with.
RetryPasses ==
    FailedPasses \cup {<<Envelope(<<GoodRow("westeurope", "sub1", 1, FALSE)>>, 1, Nil)>>}

\* The requests of a probe that retries: with a TTL and without.
RetryRequests ==
    LET base == ("resourceType" :> <<"Microsoft.Compute/virtualMachines">>)
                  @@ ("metricName" :> <<"m1">>)
    IN { base, base @@ ("queryCacheExpiration" :> <<"30s">>) }

\* The requests served side by side: two TTLs under one cache key, another query
\* (another key), and one that bypasses the cache.
ConcurrentRequests ==
    LET base == ("resourceType" :> <<"Microsoft.Compute/virtualMachines">>)
                  @@ ("metricName" :> <<"m1">>)
    IN { base @@ ("queryCacheExpiration" :> <<"30s">>),
         base @@ ("queryCacheExpiration" :> <<"1m">>),
         base @@ ("queryCacheExpiration" :> <<"30s">>)
              @@ ("query" :> <<"Resources | where tags.env == 'prod'">>),
         base @@ ("queryCacheExpiration" :> <<"0s">>) }

\* What discovery is answered with while requests run side by side: a failed
\* call, and two inventories of one resource each.
ConcurrentPasses ==
    { <<[Envelope(<<>>, 0, Nil) EXCEPT !.err = TRUE]>>,
      <<Envelope(<<GoodRow("westeurope", "sub1", 1, FALSE)>>, 1, Nil)>>,
      <<Envelope(<<GoodRow("eastus", "sub2", 2, FALSE)>>, 1, Nil)>> }

\* The requests that set the subscriptions in scope: not at all, with
\* subscriptionID, with subscriptionID[], with both, and without a TTL.
ScopeRequests ==
    LET base == ("resourceType" :> <<"Microsoft.Compute/virtualMachines">>)
                  @@ ("metricName" :> <<"m1">>)
        ttl  == base @@ ("queryCacheExpiration" :> <<"1m">>)
    IN { ttl,
         ttl @@ ("subscriptionID" :> <<"sub3">>),
         ttl @@ ("subscriptionID[]" :> <<"sub3", "sub1">>),
         ttl @@ ("subscriptionID" :> <<"sub1">>) @@ ("subscriptionID[]" :> <<"sub3">>),
         base @@ ("subscriptionID[]" :> <<"sub3">>) }

Point(ts, average, total) ==
    [TimeStamp |-> ts, Total |-> total, Average |-> average,
     Count |-> Nil, Minimum |-> Nil, Maximum |-> Nil]

Series(metadata, data) == [MetadataValues |-> metadata, Data |-> data]

Entity(name, errorCode, series) ==
    [Name |-> name, LocalizedValue |-> name, Unit |-> "Count", DisplayDescription |-> "help",
     ErrorCode |-> errorCode,
     ErrorMessage |-> IF errorCode = Nil THEN Nil ELSE Ptr("message"),
     TimeSeries |-> series]

MetricData(location, id, entities) ==
    [Namespace |-> "microsoft.compute/virtualmachines", ResourceRegion |-> location,
     ResourceID |-> id, Values |-> entities]

GoodEntity(name, ts, v) == Entity(name, Nil, <<Series(<<>>, <<Point(ts, Ptr(v), Nil)>>)>>)

FailedEntity(name) == Entity(name, Ptr("Throttled"), <<>>)

\* The answers of the metrics API to one batch on the pipeline path: a failure of
\* the call, or one MetricData per resource ID of the batch.
PipelineResponses(location, ids) ==
    { [err |-> TRUE, Values |-> <<>>],
      [err |-> FALSE,
       Values |-> [i \in DOMAIN ids |-> MetricData(location, ids[i], <<GoodEntity("m1", 1, 1)>>)]],
      [err |-> FALSE,
       Values |-> [i \in DOMAIN ids |->
            MetricData(location, ids[i],
                IF i = 1 THEN <<FailedEntity("m1")>> ELSE <<GoodEntity("m1", 1, 1)>>)]],
      [err |-> FALSE,
       Values |-> [i \in DOMAIN ids |->
            MetricData(location, ids[i], <<GoodEntity("m1", 2, 1), GoodEntity("m2", 1, 2)>>)]] }

\* The time series one metric entity may come with; v sets the entity's values
\* apart from those of the other entities of its resource.
RichTimeSeries(v) ==
    { <<>>,
      <<Series(<<>>, <<>>)>>,
      <<Series(<<>>, <<Point(1, Ptr(v + 11), Nil)>>)>>,
      <<Series(<<>>, <<Point(2, Ptr(v + 21), Ptr(v + 22)), Point(1, Ptr(v + 11), Nil)>>)>>,
      <<Series(<<>>, <<Point(1, Ptr(v + 11), Ptr(v + 12)), Point(3, Nil, Ptr(v + 32))>>)>>,
      <<Series(<<[Name |-> "dim", Value |-> "a"]>>, <<Point(1, Ptr(v + 11), Nil)>>),
        Series(<<[Name |-> "dim", Value |-> "b"]>>, <<Point(2, Ptr(v + 21), Nil)>>)>>,
      <<Series(<<>>, <<Point(2, Ptr(v + 21), Nil), Point(2, Ptr(v + 29), Nil)>>)>>,
      <<Series(<<>>, <<Point(2, Ptr(0), Nil)>>)>> }

\* The metric entities the metrics API may return under one metric name.
RichEntities(name, v) ==
    {Entity(name, Nil, series) : series \in RichTimeSeries(v)}
      \cup { Entity(name, Ptr("Success"), <<Series(<<>>, <<Point(1, Ptr(v + 11), Nil)>>)>>),
             FailedEntity(name),
             Entity(name, Ptr("Throttled"), <<Series(<<>>, <<Point(1, Ptr(v + 11), Nil)>>)>>) }

\* The metrics of one resource: an entity for the first requested metric name, or
\* one for each of the two.
RichMetricData(location, id) ==
    {MetricData(location, id, <<e1>>) : e1 \in RichEntities("m1", 0)}
      \cup {MetricData(location, id, <<e1, e2>>) :
                e1 \in RichEntities("m1", 0), e2 \in RichEntities("m2", 100)}

\* The answers of the metrics API to a batch of one or two resources, with every
\* shape of metric entity.
RichResponses(location, ids) ==
    {[err |-> TRUE, Values |-> <<>>]}
      \cup (IF Len(ids) = 1
            THEN {[err |-> FALSE, Values |-> <<md>>] : md \in RichMetricData(location, ids[1])}
            ELSE {[err |-> FALSE, Values |-> <<md1, md2>>] :
                      md1 \in RichMetricData(location, ids[1]),
                      md2 \in RichMetricData(location, ids[2])})

\* Metric entities as the SDK decodes them, with pointers.
UpstreamPoint(ts, average) ==
    [TimeStamp |-> ts, Total |-> Nil, Average |-> average,
     Count |-> Nil, Minimum |-> Nil, Maximum |-> Nil]

UpstreamName(name) == Ptr([Value |-> Ptr(name), LocalizedValue |-> Ptr(name)])

UpstreamEntity(name, errorCode, series) ==
    [Name |-> UpstreamName(name), Unit |-> Ptr("Count"), DisplayDescription |-> Ptr("help"),
     ErrorCode |-> errorCode,
     ErrorMessage |-> IF errorCode = Nil THEN Nil ELSE Ptr("message"),
     TimeSeries |-> series]

UpstreamMetricData(location, id, entities) ==
    [Namespace |-> Ptr("microsoft.compute/virtualmachines"), ResourceRegion |-> Ptr(location),
     ResourceID |-> Ptr(id), Values |-> entities]

\* The entities the metrics API may return under one metric name: complete, or
\* lacking one field, with and without a value to publish.
UpstreamEntities(name) ==
    LET valued   == UpstreamEntity(name, Nil, <<Series(<<>>, <<UpstreamPoint(Ptr(1), Ptr(1))>>)>>)
        unvalued == UpstreamEntity(name, Nil, <<Series(<<>>, <<UpstreamPoint(Ptr(1), Nil)>>)>>)
        bare     == UpstreamEntity(name, Nil, <<>>)
        failed   == UpstreamEntity(name, Ptr("Throttled"), <<>>)
    IN
    { valued,
      [valued EXCEPT !.Name = Nil],
      [valued EXCEPT !.Name = Ptr([Value |-> Nil, LocalizedValue |-> Ptr(name)])],
      [valued EXCEPT !.Name = Ptr([Value |-> Ptr(name), LocalizedValue |-> Nil])],
      [valued EXCEPT !.Unit = Nil],
      [valued EXCEPT !.DisplayDescription = Nil],
      UpstreamEntity(name, Nil, <<Series(<<>>, <<UpstreamPoint(Nil, Ptr(1))>>)>>),
      UpstreamEntity(name, Nil,
          <<Series(<<[Name |-> UpstreamName("dim"), Value |-> Nil]>>,
                   <<UpstreamPoint(Ptr(1), Ptr(1))>>)>>),
      failed,
      [failed EXCEPT !.ErrorMessage = Nil],
      [bare EXCEPT !.Name = Nil],
      [unvalued EXCEPT !.Unit = Nil],
      [unvalued EXCEPT !.DisplayDescription = Nil] }

\* The metrics of one resource: one entity of any of these shapes, a complete
\* entity under a resource lacking one field, and a complete entity followed by
\* one that lacks its name and has a time series without data points.
UpstreamResources(location, id) ==
    LET valued == UpstreamEntity("m1", Nil,
                      <<Series(<<>>, <<UpstreamPoint(Ptr(1), Ptr(1))>>)>>)
        whole  == UpstreamMetricData(location, id, <<valued>>)
    IN
    {UpstreamMetricData(location, id, <<e>>) : e \in UpstreamEntities("m1")}
      \cup { [whole EXCEPT !.Namespace = Nil],
             [whole EXCEPT !.ResourceRegion = Nil],
             [whole EXCEPT !.ResourceID = Nil],
             UpstreamMetricData(location, id,
                 <<valued, [UpstreamEntity("m2", Nil, <<Series(<<>>, <<>>)>>)
                               EXCEPT !.Name = Nil]>>) }

\* The answers of the metrics API to a batch of one or two resources, as the
\* SDK decodes them.
UpstreamResponses(location, ids) ==
    {[err |-> TRUE, Values |-> <<>>]}
      \cup (IF Len(ids) = 1
            THEN {[err |-> FALSE, Values |-> <<md>>] : md \in UpstreamResources(location, ids[1])}
            ELSE {[err |-> FALSE, Values |-> <<md1, md2>>] :
                      md1 \in UpstreamResources(location, ids[1]),
                      md2 \in UpstreamResources(location, ids[2])})


----------------------------------------------------------------------------
(* Probe orchestrator: Request.Collect and Probe.ServeHTTP                 *)

DurationGauge(phase) ==
    [type |-> "duration", desc |-> "azure_monitor_scrape_collector_duration_seconds",
     phase |-> phase]

InvalidMetric(err) == [type |-> "invalid", err |-> err]

SuccessGauge(value) ==
    [type |-> "success", desc |-> "azure_monitor_scrape_collector_success", value |-> value]

\* What Collect sends once getResources has returned err ("" for nil).
AfterGetResources(err) ==
    SetToBag({DurationGauge("query_resources")})
      (+) (IF err # "" THEN SetToBag({InvalidMetric(err), SuccessGauge(0)}) ELSE EmptyBag)

\* What Collect sends once fetchMetrics has returned err ("" for nil).
AfterFetchMetrics_noMarker(err) ==
    SetToBag({DurationGauge("fetch_metrics")})
      (+) (IF err # "" THEN SetToBag({SuccessGauge(0)}) ELSE SetToBag({SuccessGauge(1)}))

AfterFetchMetrics(err) ==
    SetToBag({DurationGauge("fetch_metrics")})
      (+) (IF err # "" THEN SetToBag({InvalidMetric(err), SuccessGauge(0)})
                       ELSE SetToBag({SuccessGauge(1)}))

\* `if err != nil { ...; return }` after getResources.
ReturnsAfterGetResources_never(err) == FALSE

ReturnsAfterGetResources(err) == err # ""

IsSample(m) == m.type = "sample"

Samples(sink) == {m \in BagToSet(sink) : IsSample(m)}

\* The samples of the sink, with their multiplicities.
OfSamples(sink) == [m \in Samples(sink) |-> sink[m]]

\* The registry's Gather fails on an invalid metric and on two metrics collected
\* with the same name and label values.
GatherFails(sink) ==
    \/ \E m \in BagToSet(sink) : m.type = "invalid"
    \/ \E m \in Samples(sink) : CopiesIn(m, sink) > 1
    \/ Cardinality({<<m.fqName, m.labels>> : m \in Samples(sink)}) < Cardinality(Samples(sink))

\* promhttp.HandlerFor(registry, HandlerOpts{Registry, ErrorLog}): ErrorHandling is
\* left at its zero value HTTPErrorOnError, so an error of Gather is answered
\* with status 500 and the error text, not with the metrics gathered.
ResponseStatus(sink) == IF GatherFails(sink) THEN 500 ELSE 200

\* The text of the error response: the error Gather returned.
ResponseError(sink) == IF GatherFails(sink) THEN "error gathering metrics" ELSE ""

\* The metrics in the body of the response (none in an error response).
ResponseBody ==
    IF httpStatus = 200 THEN BagToSet(ch) ELSE {}

\* The (region, subscription) pairs fetchMetrics ranges over.
Buckets(inventory) ==
    UNION {{<<l, s>> : s \in DOMAIN inventory.Resources[l]} : l \in DOMAIN inventory.Resources}

\* Collect returns: the handler gathers and writes the response.
Respond(sink) ==
    /\ ch' = sink
    /\ pc' = "done"
    /\ httpStatus' = ResponseStatus(sink)
    /\ httpError' = ResponseError(sink)

\* The sink once Collect has sent what follows the return of fetchMetrics; what
\* was sent before stays in the channel.
SinkAfterFetchMetrics_withdrawn(sink, err) ==
    (IF err # "" THEN sink (-) OfSamples(sink) ELSE sink) (+) AfterFetchMetrics(err)

SinkAfterFetchMetrics(sink, err) == sink (+) AfterFetchMetrics(err)

\* Collect from `err = r.fetchMetrics(ctx, azureResources, ch)` on, up to the first
\* metrics-API call: inventory is Nil or Ptr(Resources), sink what was sent so far.
BeginFetchMetrics(inventory, sink) ==
    /\ cur' = Nil
    /\ IF inventory = Nil
       THEN /\ fetch' = "error"
            /\ todo' = {}
            /\ Respond(SinkAfterFetchMetrics(sink, "resources is nil"))
       ELSE IF Buckets(Deref(inventory)) = {}
       THEN /\ fetch' = "ok"
            /\ todo' = {}
            /\ Respond(SinkAfterFetchMetrics(sink, ""))
       ELSE /\ fetch' = "running"
            /\ todo' = Buckets(Deref(inventory))
            /\ ch' = sink
            /\ pc' = "fetch_metrics"
            /\ UNCHANGED <<httpStatus, httpError>>

\* The probe after construction, before its first request.
Idle ==
    /\ pc = "idle"
    /\ request = EmptyMap
    /\ config = Nil
    /\ skipToken = ""
    /\ resources = EmptyResources
    /\ graphCalls = <<>>
    /\ todo = {}
    /\ cur = Nil
    /\ metricsClients = EmptyMap
    /\ metricsCalls = <<>>
    /\ lastResp = Nil
    /\ ch = EmptyBag
    /\ discovery = "none"
    /\ fetch = "none"
    /\ httpStatus = 0
    /\ httpError = ""
    /\ queryCache = EmptyMap
    /\ now = 0
    /\ getResourcesCalls = <<>>
    /\ missed = Nil
    /\ timeout = Nil
    /\ clientCalls = <<>>
    /\ tasks = [t \in TaskIds |-> IdleTask]
    /\ lock = Nil
    /\ stored = {}
    /\ callers = [c \in CallerIds |-> IdleCaller]

Init ==
    /\ Idle
    /\ header = <<>>
    /\ descs = Nil

\* `if err != nil { http.Error(w, err.Error(), http.StatusBadRequest); return }`
RejectsRequest_never(err) == FALSE

RejectsRequest(err) == err # ""

\* Probe.ServeHTTP up to the first inventory request: the configuration is parsed;
\* a validation error is answered with 400, otherwise the Request is registered
\* and gathered, which runs Collect.
ServeHTTPFrom(requests) ==
    /\ pc = "idle"
    /\ \E query \in requests :
         LET parsed == GetConfigFromRequest(query) IN
         /\ request' = query
         /\ config' = parsed.config
         /\ httpError' = parsed.err
         /\ IF RejectsRequest(parsed.err)
            THEN pc' = "done" /\ httpStatus' = 400
            ELSE pc' = "query_resources" /\ httpStatus' = 0
    /\ UNCHANGED <<skipToken, resources, graphCalls, todo, cur, metricsClients,
                   metricsCalls, lastResp, ch, discovery, fetch>>
    /\ UNCHANGED probe
    /\ UNCHANGED deadline
    /\ UNCHANGED clientCalls
    /\ UNCHANGED concurrent
    /\ UNCHANGED naming

ServeHTTP == ServeHTTPFrom(Requests)

\* Probe.ServeHTTP on every shape of query string.
ParseRequest == ServeHTTPFrom(ConfigRequests)

RowsReceived == SeqSum([i \in DOMAIN graphCalls |->
                    IF graphCalls[i].response.Data = Nil THEN 0
                    ELSE Len(Deref(graphCalls[i].response.Data).rows)])

\* One iteration of the loop of queryResources (getResources with a zero TTL): the
\* request carrying skipToken is answered; on the last page or on an error
\* getResources returns and Collect goes on to fetchMetrics or returns.
QueryResources ==
    /\ pc = "query_resources"
    /\ \E response \in GraphResponses(Len(graphCalls) + 1, RowsReceived) :
         LET r == queryResources(resources, response) IN
         /\ graphCalls' = Append(graphCalls, QueryRequest(QueryScope(Deref(config)),
                                                          skipToken, response))
         /\ IF r.err = "" /\ r.skipToken # ""
            THEN /\ skipToken' = r.skipToken
                 /\ resources' = r.resources
                 /\ UNCHANGED <<pc, todo, cur, ch, discovery, fetch, httpStatus, httpError>>
            ELSE /\ skipToken' = r.skipToken
                 /\ resources' = r.resources
                 /\ discovery' = IF r.err = "" THEN "ok" ELSE "error"
                 /\ IF ReturnsAfterGetResources(r.err)
                    THEN /\ Respond(ch (+) AfterGetResources(r.err))
                         /\ UNCHANGED <<todo, cur, fetch>>
                    ELSE BeginFetchMetrics(IF r.err = "" THEN Ptr(r.resources) ELSE Nil,
                                           ch (+) AfterGetResources(r.err))
    /\ UNCHANGED <<request, config, metricsClients, metricsCalls, lastResp>>
    /\ UNCHANGED probe
    /\ UNCHANGED deadline
    /\ UNCHANGED clientCalls
    /\ UNCHANGED concurrent
    /\ UNCHANGED naming

\* The buckets fetchMetrics may range on to (Go ranges over the maps in no fixed
\* order), as the arguments and locals of fetchMetricsPerSubscription at its
\* start: step is where the call stands ("get", "new_client", "set" within
\* getMetricsClient, then "query"), got what getMetricsClient kept of its Get,
\* during the cache when azmetrics.NewClient was called, client the client.
NextBuckets ==
    {[location |-> b[1], subscriptionID |-> b[2],
      resourceIDs |-> resources.Resources[b[1]][b[2]],
      step |-> "get", got |-> Nil, during |-> Nil, client |-> Nil] : b \in todo}

\* What a step of getMetricsClient leaves alone in a collection.
collection == <<pc, request, config, skipToken, resources, graphCalls, todo,
                metricsCalls, lastResp, ch, discovery, fetch, httpStatus, httpError>>

\* fetchMetrics ranges on to a bucket and calls fetchMetricsPerSubscription,
\* which calls getMetricsClient: p.metricsClientCache.Get(location) from Lock
\* to Unlock, and on a hit the return of the cached client.
MetricsClientCacheGet ==
    /\ pc = "fetch_metrics"
    /\ cur = Nil
    /\ \E bucket \in NextBuckets :
         \E got \in {CacheGet(metricsClients, bucket.location, now)} :
           /\ metricsClients' = got.cache
           /\ IF got.ok
              THEN /\ cur' = Ptr([bucket EXCEPT !.step = "query", !.client = got.value])
                   /\ clientCalls' = Append(clientCalls,
                         ClientCall(bucket.location,
                                    ClientLookup(now, metricsClients, clientCalls), now,
                                    Nil, "", got.value, FALSE, got.cache))
              ELSE /\ cur' = Ptr([bucket EXCEPT
                                    !.step = "new_client",
                                    !.got = ClientLookup(now, metricsClients, clientCalls)])
                   /\ UNCHANGED clientCalls
    /\ UNCHANGED collection
    /\ UNCHANGED probe
    /\ UNCHANGED deadline
    /\ UNCHANGED concurrent
    /\ UNCHANGED naming

\* getMetricsClient past a miss: azmetrics.NewClient, no mutex held. Its error
\* is returned by getMetricsClient, by fetchMetricsPerSubscription ("error get
\* metrics client") and by fetchMetrics, and Collect sends what follows a failed
\* fetch: no call of the metrics API is made.
NewMetricsClient ==
    /\ pc = "fetch_metrics"
    /\ cur # Nil
    /\ Deref(cur).step = "new_client"
    /\ \E err \in NewClientErrors :
         IF err # ""
         THEN /\ clientCalls' = Append(clientCalls,
                    ClientCall(Deref(cur).location, Deref(cur).got, now, Ptr(metricsClients),
                               "error creating metrics client", Nil, FALSE, metricsClients))
              /\ fetch' = "error"
              /\ Respond(SinkAfterFetchMetrics(ch, "error get metrics client"))
              /\ UNCHANGED cur
         ELSE /\ cur' = Ptr([Deref(cur) EXCEPT
                               !.step = "set",
                               !.during = Ptr(metricsClients),
                               !.client = Ptr(NewClient(Deref(cur).location,
                                                        Len(clientCalls) + 1))])
              /\ UNCHANGED <<clientCalls, pc, ch, fetch, httpStatus, httpError>>
    /\ UNCHANGED <<request, config, skipToken, resources, graphCalls, todo, metricsClients,
                   metricsCalls, lastResp, discovery>>
    /\ UNCHANGED probe
    /\ UNCHANGED deadline
    /\ UNCHANGED concurrent
    /\ UNCHANGED naming

\* p.metricsClientCache.Set(location, client, math.MaxInt64) from Lock to Unlock,
\* reading the clock of that moment, and the return of getMetricsClient.
MetricsClientCacheSet ==
    /\ pc = "fetch_metrics"
    /\ cur # Nil
    /\ Deref(cur).step = "set"
    /\ \E cache \in {StoreClient(metricsClients, Deref(cur).location,
                                  Deref(Deref(cur).client), now)} :
         /\ metricsClients' = cache
         /\ clientCalls' = Append(clientCalls,
               ClientCall(Deref(cur).location, Deref(cur).got, now, Deref(cur).during,
                          "", Deref(cur).client, TRUE, cache))
    /\ cur' = Ptr([Deref(cur) EXCEPT !.step = "query"])
    /\ UNCHANGED collection
    /\ UNCHANGED probe
    /\ UNCHANGED deadline
    /\ UNCHANGED concurrent
    /\ UNCHANGED naming

\* The steps of getMetricsClient in a fetch.
GetMetricsClient == MetricsClientCacheGet \/ NewMetricsClient \/ MetricsClientCacheSet

\* The answers the metrics API may give to a batch: those of the pipeline path,
\* or those with every shape of metric entity.
QueryResourcesResponses(rich, location, ids) ==
    IF rich THEN RichResponses(location, ids) ELSE PipelineResponses(location, ids)

\* The inventory after `requestResourceIDs := resourceIDs[:maxResourceIDs]` and
\* `resourceIDs = resourceIDs[maxResourceIDs:]`: the two re-slice the local slice
\* header of fetchMetricsPerSubscription; the list the inventory holds for the
\* bucket keeps its length and its elements.
InventoryAfterBatch_resliced(inventory, bucket, rest) ==
    [inventory EXCEPT !.Resources[bucket.location][bucket.subscriptionID] = rest]

InventoryAfterBatch(inventory, bucket, rest) == inventory

\* The inventory cache seen from a fetch: the entry getResources returned or
\* stored under the key of the request holds the pointer the fetch works on, so
\* it shows whatever the fetch does to the inventory.
SharedInventory(cache, cfg, inventory) ==
    IF BypassesCache(cfg) \/ CacheKey(cfg) \notin DOMAIN cache THEN cache
    ELSE [cache EXCEPT ![CacheKey(cfg)].value = inventory]

\* `if err != nil { ...; return fmt.Errorf("error querying metrics: %w", err) }`
\* after client.QueryResources; err is whether the call failed.
ReturnsAfterQueryResources_never(err) == FALSE

ReturnsAfterQueryResources(err) == err

\* `if len(resourceIDs) == 0 { break }` at the end of an iteration of the loop
\* of fetchMetricsPerSubscription, on the IDs that remain.
LoopBreaks_never(resourceIDs) == FALSE

LoopBreaks(resourceIDs) == Len(resourceIDs) = 0

\* The call of client.QueryResources in one iteration of the loop of
\* fetchMetricsPerSubscription, with the client getMetricsClient returned, the
\* metrics API answering with resp.
QueryResourcesCalled(bucket, resp) ==
    /\ metricsCalls' = Append(metricsCalls,
                         [location |-> bucket.location,
                          subscriptionID |-> bucket.subscriptionID,
                          metricNamespace |-> Deref(config).MetricNamespace,
                          metricNames |-> Deref(config).MetricNames,
                          resourceIDs |-> requestResourceIDs(bucket.resourceIDs),
                          client |-> bucket.client,
                          failed |-> resp.err])
    /\ lastResp' = Ptr(resp)

\* The rest of the iteration: the samples of the response, the next batch or
\* bucket, and the return of fetchMetrics.
FetchMetricsAnswered(bucket, resp) ==
    LET rest  == remainingResourceIDs(bucket.resourceIDs)
        left  == todo \ {<<bucket.location, bucket.subscriptionID>>}
    IN
    \E inventory \in {InventoryAfterBatch(resources, bucket, rest)} :
      LET sent == ch (+) ResponseValues(bucket.subscriptionID,
                                        resources.AdditionalLabels, resp.Values)
      IN
      /\ QueryResourcesCalled(bucket, resp)
      /\ resources' = inventory
      /\ queryCache' = SharedInventory(queryCache, Deref(config), inventory)
      /\ IF ReturnsAfterQueryResources(resp.err)
         THEN /\ fetch' = "error"
              /\ Respond(SinkAfterFetchMetrics(ch, "error querying metrics"))
              /\ UNCHANGED <<todo, cur>>
         ELSE IF ~LoopBreaks(rest)
         THEN /\ cur' = Ptr([bucket EXCEPT !.resourceIDs = rest])
              /\ ch' = sent
              /\ UNCHANGED <<todo, pc, fetch, httpStatus, httpError>>
         ELSE IF left # {}
         THEN /\ cur' = Nil
              /\ todo' = left
              /\ ch' = sent
              /\ UNCHANGED <<pc, fetch, httpStatus, httpError>>
         ELSE /\ cur' = Nil
              /\ todo' = left
              /\ fetch' = "ok"
              /\ Respond(SinkAfterFetchMetrics(sent, ""))

\* One iteration of the loop of fetchMetricsPerSubscription, from the return of
\* client.QueryResources on: the step is taken when the metrics API answers,
\* whenever that is, and the metrics API answers from
\* QueryResourcesResponses(rich, ..). What follows the answer is local to the
\* request: it reads the inventory and writes to the channel of Collect.
FetchMetricsBatch(rich) ==
    /\ pc = "fetch_metrics"
    /\ cur # Nil
    /\ Deref(cur).step = "query"
    /\ \E bucket \in {Deref(cur)} :
         \E resp \in QueryResourcesResponses(rich, bucket.location,
                                             requestResourceIDs(bucket.resourceIDs)) :
            FetchMetricsAnswered(bucket, resp)
    /\ UNCHANGED <<request, config, skipToken, graphCalls, discovery, metricsClients,
                   clientCalls>>
    /\ UNCHANGED <<now, getResourcesCalls, missed>>
    /\ UNCHANGED deadline
    /\ UNCHANGED concurrent
    /\ UNCHANGED naming

FetchMetrics == FetchMetricsBatch(FALSE)

Next ==
    \/ ServeHTTP
    \/ QueryResources
    \/ GetMetricsClient
    \/ FetchMetrics

Spec == Init /\ [][Next]_vars

\* The collection at the point where discovery has returned an inventory of one
\* page: a bucket of one resource, or a bucket of two resources with extra labels.
InitFetch ==
    \E query \in {q \in Requests : GetConfigFromRequest(q).err = ""},
       shape \in {p \in PageShapes : p.n <= 2 /\ ~p.repeat /\ p.subscriptionId = "sub1"
                                        /\ p.location = "westeurope"} :
        LET response == Envelope(PageRows(shape, 1), shape.n, Nil)
            r        == queryResources(EmptyResources, response)
        IN
        /\ pc = "fetch_metrics"
        /\ request = query
        /\ config = GetConfigFromRequest(query).config
        /\ skipToken = ""
        /\ resources = r.resources
        /\ graphCalls = <<QueryRequest(QueryScope(Deref(GetConfigFromRequest(query).config)),
                                       "", response)>>
        /\ todo = Buckets(r.resources)
        /\ cur = Nil
        /\ metricsClients = EmptyMap
        /\ metricsCalls = <<>>
        /\ lastResp = Nil
        /\ ch = AfterGetResources("")
        /\ discovery = "ok"
        /\ fetch = "running"
        /\ httpStatus = 0
        /\ httpError = ""
        /\ queryCache = EmptyMap
        /\ now = 0
        /\ getResourcesCalls = <<>>
        /\ missed = Nil
        /\ header = <<>>
        /\ timeout = Nil
        /\ clientCalls = <<>>
        /\ tasks = [t \in TaskIds |-> IdleTask]
        /\ lock = Nil
        /\ stored = {}
        /\ callers = [c \in CallerIds |-> IdleCaller]
        /\ descs = Nil

\* fetchMetricsPerSubscription answered with every shape of metric entity.
FetchMetricsRich == FetchMetricsBatch(TRUE)

NextFetch ==
    \/ GetMetricsClient
    \/ FetchMetricsRich

\* The fetch phase of a collection on its own, from every such inventory.
SpecFetch == InitFetch /\ [][NextFetch]_vars

\* One iteration of the loop of fetchMetricsPerSubscription, the metrics API
\* answering with a response that may lack fields. A nil dereference panics in
\* the goroutine the registry runs Collect in: the process ends without a
\* response to the scrape, the samples of the entities processed before it
\* already sent to the channel.
FetchMetricsUpstream ==
    /\ pc = "fetch_metrics"
    /\ cur # Nil
    /\ Deref(cur).step = "query"
    /\ \E bucket \in {Deref(cur)} :
         \E resp \in UpstreamResponses(bucket.location,
                                       requestResourceIDs(bucket.resourceIDs)) :
          \E ran \in {ResponseUpstream(bucket.subscriptionID, resources.AdditionalLabels,
                                       resp.Values)} :
            IF ~resp.err /\ ran.panicked
            THEN /\ QueryResourcesCalled(bucket, resp)
                 /\ ch' = ch (+) ran.out
                 /\ pc' = "panic"
                 /\ fetch' = "panic"
                 /\ UNCHANGED <<resources, queryCache, todo, cur, httpStatus, httpError>>
            ELSE FetchMetricsAnswered(bucket, DecodedResponse(resp))
    /\ UNCHANGED <<request, config, skipToken, graphCalls, discovery, metricsClients,
                   clientCalls>>
    /\ UNCHANGED <<now, getResourcesCalls, missed>>
    /\ UNCHANGED deadline
    /\ UNCHANGED concurrent
    /\ UNCHANGED naming

NextUpstream ==
    \/ GetMetricsClient
    \/ FetchMetricsUpstream

\* The keys of latestMetric, character by character.
KindNames ==
    { <<"t", "o", "t", "a", "l">>, <<"a", "v", "e", "r", "a", "g", "e">>,
      <<"c", "o", "u", "n", "t">>, <<"m", "i", "n", "i", "m", "u", "m">>,
      <<"m", "a", "x", "i", "m", "u", "m">> }

\* The (namespace, metric, aggregation, unit) tuples names are built for.
NameTuples ==
    [namespace  : { <<"A", ".", "b">>, <<"a", "/", "b">>, <<"a", "b">>, <<"a">> },
     name       : { <<"C", " ", "d">>, <<"c", "d">>, <<"b", "_", "c", "d">>, <<"c">> },
     metricType : KindNames,
     unit       : { <<"C", "o", "u", "n", "t">>, <<"c", "o", "u", "n", "t">> }]

\* Two samples about to be described.
InitNames ==
    /\ Idle
    /\ header = <<>>
    /\ descs \in {Ptr([tuples |-> <<t1, t2>>, fqNames |-> <<>>]) : t1, t2 \in NameTuples}

\* prometheus.BuildFQName(...) as the emission loop calls it for each sample.
NewDesc ==
    /\ descs # Nil
    /\ Deref(descs).fqNames = <<>>
    /\ descs' = Ptr([Deref(descs) EXCEPT !.fqNames =
                        [i \in DOMAIN Deref(descs).tuples |->
                            LET t == Deref(descs).tuples[i] IN
                            MetricFQName(t.namespace, t.name, t.metricType, t.unit)]])
    /\ UNCHANGED <<pc, request, config, skipToken, resources, graphCalls, todo, cur,
                   metricsClients, metricsCalls, lastResp, ch, discovery, fetch,
                   httpStatus, httpError>>
    /\ UNCHANGED probe
    /\ UNCHANGED deadline
    /\ UNCHANGED clientCalls
    /\ UNCHANGED concurrent

NextNames == NewDesc

\* The naming of the published metrics on its own.
SpecNames == InitNames /\ [][NextNames]_vars

\* The fetch phase of a collection answered with responses that lack fields.
SpecUpstream == InitFetch /\ [][NextUpstream]_vars

NextConfig == ParseRequest

\* The parsing of one request, over every shape of query string.
SpecConfig == Init /\ [][NextConfig]_vars

\* Probe.ServeHTTP of a probe that is followed over several requests.
CacheServeHTTP == ServeHTTPFrom(CacheRequests)

\* getResources returns ret = [err, resources, calls, hit, cache], at the time
\* of the clock; its Get was made at time `at` on the cache `before`. Collect
\* goes on to fetchMetrics or returns.
GetResourcesReturns(ret, at, before) ==
    /\ queryCache' = ret.cache
    /\ graphCalls' = ret.calls
    /\ skipToken' = ""
    /\ resources' = IF ret.resources = Nil THEN EmptyResources ELSE Deref(ret.resources)
    /\ discovery' = IF ret.err = "" THEN "ok" ELSE "error"
    /\ getResourcesCalls' = Append(getResourcesCalls,
           [config |-> Deref(config), at |-> at, returned |-> now, hit |-> ret.hit,
            calls |-> ret.calls, err |-> ret.err, resources |-> ret.resources,
            before |-> before, after |-> ret.cache])
    /\ missed' = Nil
    /\ IF ReturnsAfterGetResources(ret.err)
       THEN /\ Respond(ch (+) AfterGetResources(ret.err))
            /\ UNCHANGED <<todo, cur, fetch>>
       ELSE BeginFetchMetrics(ret.resources, ch (+) AfterGetResources(ret.err))

\* Collect from its start to the return of r.probe.queryCache.Get(cacheKey), Get
\* running from Lock to Unlock and reading the clock; on a hit getResources
\* returns, on a miss it goes on to queryResources.
QueryCacheGet ==
    /\ pc = "query_resources"
    /\ missed = Nil
    /\ ~BypassesCache(Deref(config))
    /\ \E got \in {CacheGet(queryCache, CacheKey(Deref(config)), now)} :
         IF got.ok
         THEN GetResourcesReturns(HitResources(got), now, queryCache)
         ELSE /\ queryCache' = got.cache
              /\ missed' = Ptr([at |-> now, before |-> queryCache])
              /\ UNCHANGED <<skipToken, resources, graphCalls, todo, cur, ch, discovery,
                             fetch, pc, httpStatus, httpError, getResourcesCalls>>
    /\ UNCHANGED <<request, config, metricsClients, metricsCalls, lastResp, now>>
    /\ UNCHANGED deadline
    /\ UNCHANGED clientCalls
    /\ UNCHANGED concurrent
    /\ UNCHANGED naming

\* getResources from the return of queryResources on: the step is taken when the
\* inventory API has answered one whole discovery pass, whenever that is. With
\* a TTL the result is stored by Set, which runs from Lock to Unlock and reads
\* the clock of that moment. Then Collect goes on to fetchMetrics or returns.
GetResourcesFrom(passes) ==
    /\ pc = "query_resources"
    /\ BypassesCache(Deref(config)) \/ missed # Nil
    /\ \E responses \in passes :
         \E ran \in {QueryResourcesLoop(EmptyResources, "", responses, <<>>,
                                         QueryScope(Deref(config)))} :
           IF BypassesCache(Deref(config))
           THEN GetResourcesReturns(UncachedResources(queryCache, ran), now, queryCache)
           ELSE GetResourcesReturns(MissedResources(Deref(config), now, queryCache, ran),
                                    Deref(missed).at, Deref(missed).before)
    /\ UNCHANGED <<request, config, metricsClients, metricsCalls, lastResp, now>>
    /\ UNCHANGED deadline
    /\ UNCHANGED clientCalls
    /\ UNCHANGED concurrent
    /\ UNCHANGED naming

GetResources == GetResourcesFrom(DiscoveryPasses)

\* The response is written and the probe waits for its next request.
NextRequest ==
    /\ pc = "done"
    /\ Len(getResourcesCalls) < MaxRequests
    /\ pc' = "idle"
    /\ request' = EmptyMap
    /\ config' = Nil
    /\ skipToken' = ""
    /\ resources' = EmptyResources
    /\ graphCalls' = <<>>
    /\ todo' = {}
    /\ cur' = Nil
    /\ metricsCalls' = <<>>
    /\ lastResp' = Nil
    /\ ch' = EmptyBag
    /\ discovery' = "none"
    /\ fetch' = "none"
    /\ httpStatus' = 0
    /\ httpError' = ""
    /\ UNCHANGED <<metricsClients, queryCache, now, getResourcesCalls, missed>>
    /\ UNCHANGED deadline
    /\ UNCHANGED clientCalls
    /\ UNCHANGED concurrent
    /\ UNCHANGED naming

\* Time passes, whatever the probe is doing.
Tick ==
    /\ now < 30 * MaxTicks
    /\ now' = now + 30
    /\ UNCHANGED <<pc, request, config, skipToken, resources, graphCalls, todo, cur,
                   metricsClients, metricsCalls, lastResp, ch, discovery, fetch,
                   httpStatus, httpError, queryCache, getResourcesCalls, missed>>
    /\ UNCHANGED deadline
    /\ UNCHANGED clientCalls
    /\ UNCHANGED concurrent
    /\ UNCHANGED naming

NextCache ==
    \/ CacheServeHTTP
    \/ QueryCacheGet
    \/ GetResources
    \/ GetMetricsClient
    \/ FetchMetrics
    \/ NextRequest
    \/ Tick

\* A probe with its inventory cache, over several requests.
SpecCache == Init /\ [][NextCache]_vars


\* The headers a scrape may come with: absent, or up to MaxHeaderLen characters.
RECURSIVE Headers(_)
Headers(n) ==
    IF n = 0 THEN {<<>>}
    ELSE Headers(n - 1) \cup {Append(h, c) : h \in {g \in Headers(n - 1) : Len(g) = n - 1},
                                             c \in HeaderChars}

\* A probe that is handed a request with a scrape-timeout header.
InitTimeout ==
    /\ Idle
    /\ header \in Headers(MaxHeaderLen)
    /\ descs = Nil

\* ctx, cancel := context.WithDeadline(r.Context(), time.Now().Add(r.getProbeTimeout()))
GetProbeTimeout ==
    /\ timeout = Nil
    /\ timeout' = Ptr(getProbeTimeout(header))
    /\ UNCHANGED <<pc, request, config, skipToken, resources, graphCalls, todo, cur,
                   metricsClients, metricsCalls, lastResp, ch, discovery, fetch,
                   httpStatus, httpError, header>>
    /\ UNCHANGED probe
    /\ UNCHANGED clientCalls
    /\ UNCHANGED concurrent
    /\ UNCHANGED naming

NextTimeout == GetProbeTimeout

SpecTimeout == InitTimeout /\ [][NextTimeout]_vars

\* Headers at and beyond the ends of the int64 range: the largest and the
\* smallest int64 and their neighbours outside, 2^64, twenty nines followed by a
\* letter, the most seconds whose milliseconds fit an int64 and one more, and a
\* number that is not whole.
LongHeaders ==
    { <<"9", "2", "2", "3", "3", "7", "2", "0", "3", "6", "8", "5", "4", "7", "7", "5", "8", "0", "7">>,
      <<"9", "2", "2", "3", "3", "7", "2", "0", "3", "6", "8", "5", "4", "7", "7", "5", "8", "0", "8">>,
      <<"-", "9", "2", "2", "3", "3", "7", "2", "0", "3", "6", "8", "5", "4", "7", "7", "5", "8", "0", "8">>,
      <<"-", "9", "2", "2", "3", "3", "7", "2", "0", "3", "6", "8", "5", "4", "7", "7", "5", "8", "0", "9">>,
      <<"1", "8", "4", "4", "6", "7", "4", "4", "0", "7", "3", "7", "0", "9", "5", "5", "1", "6", "1", "6">>,
      <<"9", "9", "9", "9", "9", "9", "9", "9", "9", "9", "9", "9", "9", "9", "9", "9", "9", "9", "9", "9", "x">>,
      <<"9", "2", "2", "3", "3", "7", "2", "0", "3", "6", "8", "5", "4", "7", "7", "5">>,
      <<"9", "2", "2", "3", "3", "7", "2", "0", "3", "6", "8", "5", "4", "7", "7", "6">>,
      <<"1", ".", "5", "e", "3">> }

\* A probe that is handed a request with a short or a long scrape-timeout header.
InitDeadline ==
    /\ Idle
    /\ header \in Headers(MaxHeaderLen) \cup LongHeaders
    /\ descs = Nil

NextDeadline == GetProbeTimeout

SpecDeadline == InitDeadline /\ [][NextDeadline]_vars

\* What a step of a caller of getMetricsClient leaves alone.
served == <<pc, request, config, skipToken, resources, graphCalls, todo, cur,
            metricsCalls, lastResp, ch, discovery, fetch, httpStatus, httpError>>

\* The number of clients constructed so far: one more than the calls that have
\* returned and the clients waiting to be stored is a number no client has.
NextSerial ==
    Len(clientCalls) + Cardinality({c \in CallerIds : callers[c].client # Nil}) + 1

\* A caller calls getMetricsClient(location): p.metricsClientCache.Get(location)
\* from Lock to Unlock, and on a hit the return of the cached client.
CallerGet(c) ==
    /\ callers[c].pc = "idle"
    /\ Len(clientCalls) + Cardinality({d \in CallerIds : callers[d].pc # "idle"})
          < MaxClientCalls
    /\ \E location \in Locations :
         \E got \in {CacheGet(metricsClients, location, now)} :
           /\ metricsClients' = got.cache
           /\ IF got.ok
              THEN /\ clientCalls' = Append(clientCalls,
                         ClientCall(location, ClientLookup(now, metricsClients, clientCalls),
                                    now, Nil, "", got.value, FALSE, got.cache))
                   /\ UNCHANGED callers
              ELSE /\ callers' = [callers EXCEPT ![c] =
                         [IdleCaller EXCEPT
                            !.pc = "new_client",
                            !.location = location,
                            !.got = ClientLookup(now, metricsClients, clientCalls)]]
                   /\ UNCHANGED clientCalls
    /\ UNCHANGED served
    /\ UNCHANGED probe
    /\ UNCHANGED deadline
    /\ UNCHANGED <<tasks, lock, stored>>
    /\ UNCHANGED naming

\* azmetrics.NewClient, no mutex held; its error is returned to the caller.
CallerNewClient(c) ==
    /\ callers[c].pc = "new_client"
    /\ \E err \in NewClientErrors :
         IF err # ""
         THEN /\ clientCalls' = Append(clientCalls,
                    ClientCall(callers[c].location, callers[c].got, now, Ptr(metricsClients),
                               "error creating metrics client", Nil, FALSE, metricsClients))
              /\ callers' = [callers EXCEPT ![c] = IdleCaller]
         ELSE /\ callers' = [callers EXCEPT
                               ![c].pc = "set",
                               ![c].during = Ptr(metricsClients),
                               ![c].client = Ptr(NewClient(callers[c].location, NextSerial))]
              /\ UNCHANGED clientCalls
    /\ UNCHANGED metricsClients
    /\ UNCHANGED served
    /\ UNCHANGED probe
    /\ UNCHANGED deadline
    /\ UNCHANGED <<tasks, lock, stored>>
    /\ UNCHANGED naming

\* p.metricsClientCache.Set(location, client, math.MaxInt64) from Lock to Unlock,
\* reading the clock of that moment, and the return of getMetricsClient.
CallerSet(c) ==
    /\ callers[c].pc = "set"
    /\ \E cache \in {StoreClient(metricsClients, callers[c].location,
                                  Deref(callers[c].client), now)} :
         /\ metricsClients' = cache
         /\ clientCalls' = Append(clientCalls,
               ClientCall(callers[c].location, callers[c].got, now, callers[c].during,
                          "", callers[c].client, TRUE, cache))
    /\ callers' = [callers EXCEPT ![c] = IdleCaller]
    /\ UNCHANGED served
    /\ UNCHANGED probe
    /\ UNCHANGED deadline
    /\ UNCHANGED <<tasks, lock, stored>>
    /\ UNCHANGED naming

ConcurrentGet == \E c \in CallerIds : CallerGet(c)

ConcurrentNewClient == \E c \in CallerIds : CallerNewClient(c)

ConcurrentSet == \E c \in CallerIds : CallerSet(c)

NextClients == ConcurrentGet \/ ConcurrentNewClient \/ ConcurrentSet \/ Tick

\* A probe and its cache of metrics clients, under calls of getMetricsClient
\* that run one after the other or side by side, and over time.
SpecClients == Init /\ [][NextClients]_vars

RetryServeHTTP == ServeHTTPFrom(RetryRequests)

RetryGetResources == GetResourcesFrom(RetryPasses)

NextRetry ==
    \/ RetryServeHTTP
    \/ QueryCacheGet
    \/ RetryGetResources
    \/ GetMetricsClient
    \/ FetchMetrics
    \/ NextRequest
    \/ Tick

\* A probe whose discovery may fail on any page, over several requests.
SpecRetry == Init /\ [][NextRetry]_vars

ScopeServeHTTP == ServeHTTPFrom(ScopeRequests)

NextScope ==
    \/ ScopeServeHTTP
    \/ QueryCacheGet
    \/ GetResources
    \/ GetMetricsClient
    \/ FetchMetrics
    \/ NextRequest
    \/ Tick

\* A probe whose requests set the subscriptions in scope, over several requests.
SpecScope == Init /\ [][NextScope]_vars

NextPaging == ServeHTTP \/ QueryResources

\* The pipeline up to the return of discovery, with a loop that is not held up
\* for ever: the call of the inventory API returns (the deadline of the request
\* bounds it).
SpecPaging == Init /\ [][NextPaging]_vars /\ WF_vars(QueryResources)

\* Everything of the probe but its inventory cache, the clock and the tasks.
pipeline == <<pc, request, config, skipToken, resources, graphCalls, todo, cur,
              metricsClients, metricsCalls, lastResp, ch, discovery, fetch, httpStatus,
              httpError, getResourcesCalls, missed, header, timeout, clientCalls, descs>>

\* Collect of a new request reaches `r.getResources(ctx)`.
TaskGetResources(t) ==
    /\ tasks[t].pc = "idle"
    /\ \E query \in ConcurrentRequests :
         LET cfg == GetConfigFromRequest(query).config IN
         tasks' = [tasks EXCEPT ![t] =
                      [IdleTask EXCEPT !.config = cfg,
                                       !.pc = IF BypassesCache(Deref(cfg))
                                              THEN "query_resources" ELSE "get_lock"]]
    /\ UNCHANGED <<queryCache, now, lock, stored, callers>>
    /\ UNCHANGED pipeline

\* c.lock.Lock() of Get and of Set.
TaskLock(t) ==
    /\ tasks[t].pc \in {"get_lock", "set_lock"}
    /\ TryLock(lock)
    /\ lock' = Ptr(t)
    /\ tasks' = [tasks EXCEPT ![t].pc = IF @ = "get_lock" THEN "get_lookup" ELSE "set_store"]
    /\ UNCHANGED <<queryCache, now, stored, callers>>
    /\ UNCHANGED pipeline

\* Get: value, ok := c.data[key]
TaskGetLookup(t) ==
    /\ tasks[t].pc = "get_lookup"
    /\ tasks' = [tasks EXCEPT
                    ![t].looked = Ptr(Lookup(queryCache, CacheKey(Deref(tasks[t].config)))),
                    ![t].pc = "get_return"]
    /\ UNCHANGED <<queryCache, now, lock, stored, callers>>
    /\ UNCHANGED pipeline

\* Get from the test of the expiration to its return (the deferred Unlock
\* included), and getResources up to the call of queryResources.
TaskGetReturn(t) ==
    /\ tasks[t].pc = "get_return"
    /\ \E got \in {GetAfterLookup(queryCache, CacheKey(Deref(tasks[t].config)),
                                   Deref(tasks[t].looked), now)} :
         /\ queryCache' = got.cache
         /\ tasks' = [tasks EXCEPT
                         ![t].resources = got.value,
                         ![t].pc = IF got.ok THEN "done" ELSE "query_resources"]
    /\ lock' = Nil
    /\ UNCHANGED <<now, stored, callers>>
    /\ UNCHANGED pipeline

\* resources, err := r.queryResources(ctx), and the return of getResources when
\* the call failed or the cache is bypassed.
TaskQueryResources(t) ==
    /\ tasks[t].pc = "query_resources"
    /\ \E responses \in ConcurrentPasses :
         \E ran \in {QueryResourcesLoop(EmptyResources, "", responses, <<>>,
                                         QueryScope(Deref(tasks[t].config)))} :
         tasks' = [tasks EXCEPT
                      ![t].ran = Ptr(ran),
                      ![t].err = ran.err,
                      ![t].resources = ran.resources,
                      ![t].pc = IF ran.err # "" \/ BypassesCache(Deref(tasks[t].config))
                                THEN "done" ELSE "set_lock"]
    /\ UNCHANGED <<queryCache, now, lock, stored, callers>>
    /\ UNCHANGED pipeline

\* Set past its Lock: the entry is written and the mutex released; getResources
\* returns.
TaskSetStore(t) ==
    /\ tasks[t].pc = "set_store"
    /\ LET cfg == Deref(tasks[t].config) IN
         /\ queryCache' = StoreResources(queryCache, cfg, Deref(tasks[t].resources), now)
         /\ stored' = stored \cup {[key |-> CacheKey(cfg),
                                     value |-> Deref(tasks[t].resources),
                                     expiration |-> now + cfg.QueryCacheCacheExpiration]}
    /\ lock' = Nil
    /\ tasks' = [tasks EXCEPT ![t].pc = "done"]
    /\ UNCHANGED <<now, callers>>
    /\ UNCHANGED pipeline

ConcurrentGetResources == \E t \in TaskIds : TaskGetResources(t)

ConcurrentLock == \E t \in TaskIds : TaskLock(t)

ConcurrentGetLookup == \E t \in TaskIds : TaskGetLookup(t)

ConcurrentGetReturn == \E t \in TaskIds : TaskGetReturn(t)

ConcurrentQueryResources == \E t \in TaskIds : TaskQueryResources(t)

ConcurrentSetStore == \E t \in TaskIds : TaskSetStore(t)

NextConcurrent ==
    \/ ConcurrentGetResources
    \/ ConcurrentLock
    \/ ConcurrentGetLookup
    \/ ConcurrentGetReturn
    \/ ConcurrentQueryResources
    \/ ConcurrentSetStore
    \/ Tick

\* Requests served side by side on one probe, as far as they meet in the
\* inventory cache.
SpecConcurrent == Init /\ [][NextConcurrent]_vars

----------------------------------------------------------------------------
(* Properties of the pipeline (specification Spec)                         *)

\* Collect has run to its end (a request rejected by the parser never runs it).
Completed == pc = "done" /\ config # Nil

\* The metrics of one type in the sink, with their multiplicities.
OfType(sink, type) ==
    LET ms == {m \in BagToSet(sink) : m.type = type} IN [m \in ms |-> sink[m]]

HowMany(sink, type) == BagCardinality(OfType(sink, type))

\* A metric entity that reports an error code other than Success.
ReportsError(metricValue) ==
    metricValue.ErrorCode \notin {Nil, Ptr("Success")}

\* The entities of a metrics response that report an error code other than Success.
FailedEntities(resp) ==
    {<<i, j>> \in (DOMAIN resp.Values) \X (1..2) :
        j \in DOMAIN resp.Values[i].Values /\ ReportsError(resp.Values[i].Values[j])}

\* C1: every completed collection carries exactly one success gauge; it is 1
\* exactly when getResources and fetchMetrics both returned without error, and is
\* otherwise 0 next to exactly one invalid-metric marker; a collection none of
\* whose calls failed (of the inventory API, of getMetricsClient, of the metrics
\* API) reports 1 whatever error codes its metric entities carry.
C1_OneSuccessGauge ==
    Completed =>
        /\ HowMany(ch, "success") = 1
        /\ BagIn(SuccessGauge(1), ch) <=> (discovery = "ok" /\ fetch = "ok")
        /\ ~BagIn(SuccessGauge(1), ch) =>
              BagIn(SuccessGauge(0), ch) /\ HowMany(ch, "invalid") = 1
        /\ ( /\ discovery = "ok"
             /\ \A i \in DOMAIN clientCalls : clientCalls[i].err = ""
             /\ \A i \in DOMAIN metricsCalls : ~metricsCalls[i].failed )
              => BagIn(SuccessGauge(1), ch)

\* C1 witness: a collection completed with success=1 although an entity of its
\* last response reported an error code.
C1_Witness ==
    /\ Completed
    /\ BagIn(SuccessGauge(1), ch)
    /\ lastResp # Nil
    /\ FailedEntities(Deref(lastResp)) # {}

\* C2: a metrics-API call is issued only after getResources has returned
\* successfully, fetchMetrics is attempted only then, the query_resources gauge is
\* sent by every completed collection and the fetch_metrics gauge only by one that
\* attempted the fetch.
C2_DiscoveryPrecedesFetch ==
    /\ metricsCalls # <<>> => discovery = "ok"
    /\ fetch # "none" => discovery = "ok"
    /\ Completed => CopiesIn(DurationGauge("query_resources"), ch) = 1
    /\ Completed => (CopiesIn(DurationGauge("fetch_metrics"), ch) = 1 <=> fetch # "none")
    /\ ~Completed => ~BagIn(DurationGauge("fetch_metrics"), ch)
    /\ pc = "query_resources" => ch = EmptyBag

\* C2 witness: a collection that failed in discovery and sent the query_resources
\* gauge without any metrics-API call or fetch_metrics gauge.
C2_Witness ==
    /\ Completed
    /\ discovery = "error"
    /\ metricsCalls = <<>>
    /\ BagIn(DurationGauge("query_resources"), ch)
    /\ ~BagIn(DurationGauge("fetch_metrics"), ch)

\* C3 (as claimed): every request with a valid configuration is answered with
\* status 200 and a body that contains the success gauge.
C3_AlwaysStatus200 ==
    Completed =>
        /\ httpStatus = 200
        /\ \E m \in ResponseBody : m.type = "success"

\* C4: no metrics-API call carries more than 50 resource IDs.
C4_BatchAtMost50 ==
    \A i \in DOMAIN metricsCalls : Len(metricsCalls[i].resourceIDs) <= 50

\* C4 witness: a bucket of more than 50 resources was split: a call with exactly
\* 50 IDs is followed by a further call for the same bucket.
C4_Witness ==
    \E i \in DOMAIN metricsCalls :
        /\ Len(metricsCalls[i].resourceIDs) = 50
        /\ i + 1 \in DOMAIN metricsCalls
        /\ metricsCalls[i + 1].location = metricsCalls[i].location
        /\ metricsCalls[i + 1].subscriptionID = metricsCalls[i].subscriptionID
        /\ Len(resources.Resources[metricsCalls[i].location][metricsCalls[i].subscriptionID]) > 50

\* The metrics-API calls issued for one bucket, in the order of issue.
CallsFor(l, s) ==
    SelectSeq(metricsCalls, LAMBDA c : c.location = l /\ c.subscriptionID = s)

BatchesFor(l, s) == [i \in DOMAIN CallsFor(l, s) |-> CallsFor(l, s)[i].resourceIDs]

CeilDiv(n, d) == (n + d - 1) \div d

\* C5: when the fetch ends without a failing call, every bucket of n IDs was
\* served by exactly ceil(n/50) calls whose batches, put end to end in the order
\* of issue, are the bucket's list.
C5_CeilBatches ==
    (Completed /\ fetch = "ok") =>
        \A b \in Buckets(resources) :
            LET ids == resources.Resources[b[1]][b[2]] IN
            /\ Len(CallsFor(b[1], b[2])) = CeilDiv(Len(ids), 50)
            /\ Flatten(BatchesFor(b[1], b[2])) = ids

\* C5 witness: a fetch that ended without error served a bucket of exactly 50
\* IDs with one call and a bucket of more than 100 IDs with three.
C5_Witness ==
    /\ Completed
    /\ fetch = "ok"
    /\ \E b \in Buckets(resources) :
         \/ Len(resources.Resources[b[1]][b[2]]) = 50 /\ Len(CallsFor(b[1], b[2])) = 1
         \/ Len(resources.Resources[b[1]][b[2]]) > 100 /\ Len(CallsFor(b[1], b[2])) = 3

\* The inventory API answered the last request of the discovery with count=0.
AnsweredCountZero ==
    /\ graphCalls # <<>>
    /\ LET r == graphCalls[Len(graphCalls)].response IN
         ~r.err /\ r.Count = Ptr(0)

\* C9 (as claimed): after an answer with count=0 discovery returns an empty
\* inventory without error, no metrics-API call is issued, and the scrape
\* reports success=1 with no sample.
C9_CountZeroSucceeds ==
    (Completed /\ AnsweredCountZero) =>
        /\ discovery = "ok"
        /\ resources = EmptyResources
        /\ metricsCalls = <<>>
        /\ BagIn(SuccessGauge(1), ch)
        /\ Samples(ch) = {}

\* C9 failing input: the inventory API answered the first request of a
\* discovery with count=0 and no row, and the collection has completed.
C9_CountZeroAnswered ==
    /\ Completed
    /\ AnsweredCountZero
    /\ Len(graphCalls) = 1
    /\ graphCalls[1].response = Envelope(<<>>, 0, Nil)
    /\ BagIn(SuccessGauge(0), ch)

\* The error resourceGraphQuery returns for an answer with count=0: that of the
\* envelope check when the answer lacks a field, else that of the count.
CountZeroError(response) ==
    IF response.ResultTruncated = Nil \/ response.Data = Nil
    THEN "unexpected response" ELSE "no rows returned"

\* What the code does after an answer with count=0: discovery ends in an error
\* and returns no inventory, no metrics-API call is issued, and the scrape
\* reports success=0 with exactly one invalid-metric marker and no sample.
CountZeroFails ==
    AnsweredCountZero =>
        /\ pc = "done"
        /\ discovery = "error"
        /\ fetch = "none"
        /\ resources = EmptyResources
        /\ metricsCalls = <<>>
        /\ BagIn(SuccessGauge(0), ch) /\ HowMany(ch, "success") = 1
        /\ BagIn(InvalidMetric(CountZeroError(graphCalls[Len(graphCalls)].response)), ch)
        /\ HowMany(ch, "invalid") = 1
        /\ Samples(ch) = {}

\* An answer with count=0 came after an earlier page had been accepted; another
\* came without data.
CountZeroAfterPageSeen ==
    /\ Completed
    /\ AnsweredCountZero
    /\ Len(graphCalls) >= 2

CountZeroWithoutDataSeen ==
    /\ Completed
    /\ AnsweredCountZero
    /\ graphCalls[Len(graphCalls)].response.Data = Nil

NoDuplicate(ids) == Cardinality(Range(ids)) = Len(ids)

NoDuplicateInBuckets ==
    \A b \in Buckets(resources) : NoDuplicate(resources.Resources[b[1]][b[2]])

\* C10: whatever pages were returned, no bucket of the inventory
\* discovery returns holds a resource ID twice.
C10_NoDuplicateIDs == discovery = "ok" => NoDuplicateInBuckets

\* C10 failing input: a second page repeated a row of the first and discovery
\* returned a bucket that holds the row's ID twice.
C10_RepeatedRowKept ==
    /\ discovery = "ok"
    /\ Len(graphCalls) = 2
    /\ ~NoDuplicateInBuckets

----------------------------------------------------------------------------
(* Properties of the fetch phase (specification SpecFetch)                 *)

\* The resources and metric entities of the response to the last batch.
Entities ==
    IF lastResp = Nil \/ Deref(lastResp).err THEN {}
    ELSE UNION {{<<md, md.Values[j]>> : j \in DOMAIN md.Values} :
                    md \in Range(Deref(lastResp).Values)}

\* The data points of one metric entity, over all of its time series.
DataPoints(metricValue) ==
    Range(Flatten([i \in DOMAIN metricValue.TimeSeries |-> metricValue.TimeSeries[i].Data]))

IsLatest(data, metricValue) ==
    /\ data \in DataPoints(metricValue)
    /\ \A other \in DataPoints(metricValue) : other.TimeStamp <= data.TimeStamp

\* The samples sent under the name of one metric entity of one resource for one
\* aggregation kind.
EmittedFor(metric, metricValue, kind) ==
    {m \in Samples(ch) : /\ m.labels["instance"] = metric.ResourceID
                         /\ m.fqName[3] = SanitizeName(metricValue.Name)
                         /\ m.fqName[4] = kind}

\* C6 (as claimed): when a metric entity that is not skipped has data points at
\* T1 < T2, T2 its one latest, the value sent for an aggregation kind the point
\* at T2 carries is the value at T2.
C6_ValueAtLaterTimestamp ==
    (Completed /\ fetch = "ok") =>
        \A e \in Entities :
            ReportsError(e[2]) \/
            \A t1, t2 \in DataPoints(e[2]), kind \in Kinds :
                ( /\ t1.TimeStamp < t2.TimeStamp
                  /\ \A other \in DataPoints(e[2]) \ {t2} : other.TimeStamp < t2.TimeStamp
                  /\ PointValues(t2)[kind] # Nil )
                => /\ EmittedFor(e[1], e[2], kind) # {}
                   /\ \A m \in EmittedFor(e[1], e[2], kind) :
                          m.value = Deref(PointValues(t2)[kind])

\* C6 failing input: the second metric entity of a resource has data points at
\* timestamps 1 and 2 and the first entity one at timestamp 3.
C6_OlderThanSibling ==
    /\ Completed
    /\ fetch = "ok"
    /\ \E e \in Entities :
         /\ Len(e[1].Values) = 2 /\ e[2] = e[1].Values[2]
         /\ {d.TimeStamp : d \in DataPoints(e[2])} = {1, 2}
         /\ \E d \in DataPoints(e[1].Values[1]) : d.TimeStamp = 3
         /\ ~ReportsError(e[1].Values[1])

\* C7 (as claimed): every sample sent carries, for its aggregation kind, the value
\* of a latest data point of its own metric entity, whatever the other metric
\* entities of the resource hold.
C7_OwnLatestDataPoint ==
    (Completed /\ fetch = "ok") =>
        \A e \in Entities, kind \in Kinds :
            \A m \in EmittedFor(e[1], e[2], kind) :
                \E data \in DataPoints(e[2]) :
                    /\ IsLatest(data, e[2])
                    /\ PointValues(data)[kind] = Ptr(m.value)

\* C7 failing input: a resource answered with two metric entities, the second of
\* which has no data point newer than the first's latest.
C7_SiblingIsNewer ==
    /\ Completed
    /\ fetch = "ok"
    /\ \E e \in Entities :
         /\ Len(e[1].Values) = 2 /\ e[2] = e[1].Values[2]
         /\ ~ReportsError(e[2]) /\ ~ReportsError(e[1].Values[1])
         /\ DataPoints(e[2]) # {} /\ DataPoints(e[1].Values[1]) # {}
         /\ \A d \in DataPoints(e[2]) :
                \E f \in DataPoints(e[1].Values[1]) : d.TimeStamp <= f.TimeStamp

\* A metric entity that is not skipped and has a data point.
HasData(metricValue) ==
    ~ReportsError(metricValue) /\ DataPoints(metricValue) # {}

\* C8: when the metrics API answers a batch without error and a metric entity of
\* one resource reports an error code other than Success, no sample is sent for
\* that entity, every other resource whose first entity has data has samples, and
\* the fetch ends without error with success=1 and no invalid-metric marker.
C8_FailedEntitySkipped ==
    Completed =>
        \A e \in Entities :
            ReportsError(e[2]) =>
                /\ \A kind \in Kinds : EmittedFor(e[1], e[2], kind) = {}
                /\ \A md \in Range(Deref(lastResp).Values) :
                       (md # e[1] /\ HasData(md.Values[1]))
                          => \E m \in Samples(ch) : m.labels["instance"] = md.ResourceID
                /\ fetch = "ok"
                /\ BagIn(SuccessGauge(1), ch)
                /\ HowMany(ch, "invalid") = 0

\* C8 witness: of two resources one came with a failed entity that carried data
\* and the other with a healthy one; the scrape completed with success=1.
C8_Witness ==
    /\ Completed
    /\ BagIn(SuccessGauge(1), ch)
    /\ \E e \in Entities :
         /\ ReportsError(e[2]) /\ DataPoints(e[2]) # {}
         /\ \E md \in Range(Deref(lastResp).Values) :
                /\ md # e[1]
                /\ \A j \in DOMAIN md.Values : HasData(md.Values[j])
                /\ \E m \in Samples(ch) : m.labels["instance"] = md.ResourceID


----------------------------------------------------------------------------
(* Properties of the parser (specification SpecConfig)                     *)

\* The values the request carries for a parameter, none when it is absent.
Sent(p) == IF p \in DOMAIN request THEN request[p] ELSE <<>>

\* The parser has run and turned the request down / handed out a config.
Rejected == pc = "done" /\ config = Nil /\ httpStatus = 400

Accepted == pc = "query_resources" /\ config # Nil /\ httpStatus = 0

OneResourceType == Len(Sent("resourceType")) = 1 /\ Sent("resourceType")[1] # ""

HasMetricName == Sent("metricName") # <<>> \/ Sent("metricName[]") # <<>>

\* Nothing else is wrong with the request: no optional parameter is repeated, top
\* is a 32-bit number and queryCacheExpiration a duration.
NoOtherViolation ==
    /\ \A p \in {"interval", "filter", "metricPrefix", "metricNamespace", "top",
                 "queryCacheExpiration"} : Len(Sent(p)) <= 1
    /\ Sent("top") # <<>> => Sent("top")[1] \in {"5", "0"}
    /\ Sent("queryCacheExpiration") # <<>>
          => Sent("queryCacheExpiration")[1] \in {"1m", "30s", "0s"}

\* C15: a request is turned down when resourceType is absent, empty or repeated,
\* and when neither metricName nor metricName[] carries a value; a request with one
\* non-empty resourceType, a metric name and nothing else wrong is accepted.
C15_MandatoryParameters ==
    pc # "idle" =>
        /\ ~OneResourceType => Rejected
        /\ ~HasMetricName => Rejected
        /\ (OneResourceType /\ HasMetricName /\ NoOtherViolation) => Accepted

\* C15 witness: a request that names its metrics only through metricName[] was
\* accepted.
C15_Witness ==
    /\ Accepted
    /\ Sent("metricName") = <<>>
    /\ Sent("metricName[]") # <<>>
    /\ Deref(config).MetricNames = Sent("metricName[]")

\* C17 (as claimed): a request that repeats query, interval, filter,
\* metricPrefix, metricNamespace, top or queryCacheExpiration is turned down.
C17_RepeatedParameterRejected ==
    pc # "idle" =>
        \A p \in {"query", "interval", "filter", "metricPrefix", "metricNamespace", "top",
                  "queryCacheExpiration"} :
            Len(Sent(p)) > 1 => Rejected

\* C17 failing input: a request that repeats query was accepted with the default
\* query text.
C17_RepeatedQueryAccepted ==
    /\ Accepted
    /\ Len(Sent("query")) > 1
    /\ Deref(config).Query = "Resources"

\* The values joined with commas, in the order of the request.
IsJoined(selector, values) ==
    /\ Len(selector) = 2 * Len(values) - 1
    /\ \A i \in DOMAIN values : selector[2 * i - 1] = values[i]
    /\ \A i \in 1..(Len(values) - 1) : selector[2 * i] = ","

\* C18: the aggregation selector of an accepted config is the values of
\* aggregation joined with commas in request order (the single value when there is
\* one), those of aggregation[] under the same rule when aggregation is absent, and
\* unset when neither is sent.
C18_AggregationSelector ==
    Accepted =>
        LET plain    == Sent("aggregation")
            list     == Sent("aggregation[]")
            selector == Deref(config).Aggregation
        IN
        /\ plain # <<>> => selector # Nil /\ IsJoined(Deref(selector), plain)
        /\ (plain = <<>> /\ list # <<>>) => selector # Nil /\ IsJoined(Deref(selector), list)
        /\ (plain = <<>> /\ list = <<>>) => selector = Nil

\* C18 witness: three values of aggregation were joined in request order.
C18_Witness ==
    /\ Accepted
    /\ Len(Sent("aggregation")) = 3
    /\ Deref(config).Aggregation = Ptr(<<"total", ",", "average", ",", "count">>)

\* C19: in an accepted config the query text is Resources when query is absent,
\* metricPrefix is azure_monitor when absent or empty, metricNamespace is the
\* resource type when absent or empty, and the cache TTL is zero when
\* queryCacheExpiration is absent.
C19_Defaults ==
    Accepted =>
        /\ Sent("query") = <<>> => Deref(config).Query = "Resources"
        /\ Sent("metricPrefix") \in {<<>>, <<"">>}
              => Deref(config).MetricPrefix = "azure_monitor"
        /\ Sent("metricNamespace") \in {<<>>, <<"">>}
              => Deref(config).MetricNamespace = Sent("resourceType")[1]
        /\ Sent("queryCacheExpiration") = <<>>
              => Deref(config).QueryCacheCacheExpiration = 0
        /\ Len(Sent("metricPrefix")) = 1 /\ Sent("metricPrefix")[1] # ""
              => Deref(config).MetricPrefix = Sent("metricPrefix")[1]
        /\ Len(Sent("metricNamespace")) = 1 /\ Sent("metricNamespace")[1] # ""
              => Deref(config).MetricNamespace = Sent("metricNamespace")[1]

\* C19 witness: a request with an empty metricPrefix was accepted with the default
\* prefix.
C19_Witness ==
    /\ Accepted
    /\ Sent("metricPrefix") = <<"">>
    /\ Deref(config).MetricPrefix = "azure_monitor"
    /\ Deref(config).Query = "Resources"


----------------------------------------------------------------------------
(* Properties of the inventory cache (specification SpecCache)             *)

\* The discovery parameters of a call of getResources: query text, resource
\* type and the subscriptions in scope, in the order they were listed.
DiscoveryParameters(call) ==
    <<call.config.Query, call.config.ResourceType,
      IF call.config.Subscriptions = Nil THEN ProbeSubscriptions
      ELSE Deref(call.config.Subscriptions)>>

\* Call i ran discovery with a TTL and what it stored when it returned is still
\* unexpired when call j, made after it, looks into the cache.
StoredAndUnexpired(i, j) ==
    /\ i < j
    /\ getResourcesCalls[i].config.QueryCacheCacheExpiration > 0
    /\ ~getResourcesCalls[i].hit
    /\ getResourcesCalls[i].err = ""
    /\ getResourcesCalls[j].at
          <= getResourcesCalls[i].returned
               + getResourcesCalls[i].config.QueryCacheCacheExpiration

\* The number of discovery passes behind a log of inventory-API exchanges: a pass
\* starts with the request that carries no continuation token.
Passes(calls) == Cardinality({i \in DOMAIN calls : calls[i].skipToken = ""})

\* C11: a call of getResources whose TTL is zero leaves the inventory cache as it
\* was, is not served from it and runs discovery against the inventory API, also
\* when the cache holds an unexpired entry for its discovery parameters.
C11_ZeroTTLBypassesCache ==
    \A j \in DOMAIN getResourcesCalls :
        LET call == getResourcesCalls[j] IN
        call.config.QueryCacheCacheExpiration = 0 =>
            /\ call.after = call.before
            /\ ~call.hit
            /\ Passes(call.calls) = 1

\* C11 witness: a request without TTL ran discovery although an earlier request
\* with the same discovery parameters had stored an entry that was unexpired.
C11_Witness ==
    \E i, j \in DOMAIN getResourcesCalls :
        /\ StoredAndUnexpired(i, j)
        /\ DiscoveryParameters(getResourcesCalls[i]) = DiscoveryParameters(getResourcesCalls[j])
        /\ getResourcesCalls[j].config.QueryCacheCacheExpiration = 0
        /\ getResourcesCalls[j].before # EmptyMap
        /\ getResourcesCalls[j].calls # <<>>

\* C12: a call of getResources with a non-zero TTL that finds an unexpired entry
\* under its key returns the stored inventory without any inventory-API call and
\* leaves the cache alone; otherwise it runs one discovery pass and, when that
\* succeeds, returns its result and stores it under the key, expiring one TTL
\* after the moment of the store (discovery takes its time: that is later than
\* the lookup), every other entry being kept.
C12_HitOrDiscoverAndStore ==
    \A j \in DOMAIN getResourcesCalls :
        LET call == getResourcesCalls[j]
            ttl  == call.config.QueryCacheCacheExpiration
            key  == CacheKey(call.config)
            live == key \in DOMAIN call.before /\ call.at <= call.before[key].expiration
        IN
        ttl # 0 =>
            /\ live => /\ call.hit /\ call.err = ""
                       /\ call.calls = <<>>
                       /\ call.resources = Ptr(call.before[key].value)
                       /\ call.after = call.before
            /\ ~live => /\ ~call.hit
                        /\ Passes(call.calls) = 1
                        /\ call.err = "" =>
                             /\ call.resources # Nil
                             /\ DOMAIN call.after = DOMAIN call.before \cup {key}
                             /\ call.after[key] = [value |-> Deref(call.resources),
                                                   expiration |-> call.returned + ttl]
                             /\ \A k \in DOMAIN call.before \ {key} :
                                    call.after[k] = call.before[k]

\* C12 witness: a request missed, its discovery took 30 seconds, and a request
\* that looked more than one TTL after that miss, but within one TTL of the
\* store, was served the stored inventory without any inventory-API call.
C12_Witness ==
    \E i, j \in DOMAIN getResourcesCalls :
        /\ StoredAndUnexpired(i, j)
        /\ getResourcesCalls[i].returned > getResourcesCalls[i].at
        /\ getResourcesCalls[j].hit
        /\ getResourcesCalls[j].at
              > getResourcesCalls[i].at + getResourcesCalls[i].config.QueryCacheCacheExpiration
        /\ getResourcesCalls[j].resources = getResourcesCalls[i].resources
        /\ getResourcesCalls[j].calls = <<>>

\* C13 (as claimed): a request with a TTL whose query text, resource type and
\* set of subscriptions are those of an earlier request that stored its inventory
\* is served from that inventory while the entry is unexpired, in whatever order
\* the subscriptions are listed.
C13_SameSubscriptionSetSharesEntry ==
    \A i, j \in DOMAIN getResourcesCalls :
        LET first  == DiscoveryParameters(getResourcesCalls[i])
            second == DiscoveryParameters(getResourcesCalls[j])
        IN
        ( /\ StoredAndUnexpired(i, j)
          /\ getResourcesCalls[j].config.QueryCacheCacheExpiration > 0
          /\ first[1] = second[1]
          /\ first[2] = second[2]
          /\ Range(first[3]) = Range(second[3]) )
        => /\ getResourcesCalls[j].hit
           /\ getResourcesCalls[j].calls = <<>>
           /\ getResourcesCalls[j].resources = getResourcesCalls[i].resources

\* C13 failing input: the second request lists the subscriptions of the first in
\* another order while the entry of the first is unexpired.
C13_SameSetOtherOrder ==
    \E i, j \in DOMAIN getResourcesCalls :
        /\ StoredAndUnexpired(i, j)
        /\ getResourcesCalls[j].config.QueryCacheCacheExpiration > 0
        /\ DiscoveryParameters(getResourcesCalls[i])[3] = <<"sub1", "sub2">>
        /\ DiscoveryParameters(getResourcesCalls[j])[3] = <<"sub2", "sub1">>
        /\ ~getResourcesCalls[j].hit

\* The keys, inventories, TTLs and delays the cache is exercised with.
RoundTripKeys == {CacheKey(Deref(GetConfigFromRequest(q).config)) :
                      q \in {r \in CacheRequests : GetConfigFromRequest(r).err = ""}}

\* C14: in every state of the cache, Set(key, v, ttl) with a positive ttl followed
\* by Get(key) before the ttl has elapsed returns v, Get(key) after the ttl has
\* elapsed is a miss, and Get of a key that is not set is a miss.
C14_CacheRoundTrip ==
    \A key \in RoundTripKeys :
        /\ \A ttl \in {30, 60}, delay \in {0, 30, 60, 90} :
              LET set == CacheSet(queryCache, key, resources, ttl, now)
                  got == CacheGet(set, key, now + delay)
              IN /\ delay < ttl => got.ok /\ got.value = Ptr(resources)
                 /\ delay > ttl => ~got.ok /\ got.value = Nil
        /\ key \notin DOMAIN queryCache
              => LET got == CacheGet(queryCache, key, now)
                 IN ~got.ok /\ got.value = Nil

\* C14 witness: a request read back, after its TTL had elapsed, the entry an
\* earlier request had set, and the read was a miss that dropped the entry.
C14_Witness ==
    \E i, j \in DOMAIN getResourcesCalls :
        LET key == CacheKey(getResourcesCalls[j].config) IN
        /\ i < j
        /\ key \in DOMAIN getResourcesCalls[i].after
        /\ key \in DOMAIN getResourcesCalls[j].before
        /\ getResourcesCalls[j].before[key] = getResourcesCalls[i].after[key]
        /\ getResourcesCalls[j].before[key].expiration < getResourcesCalls[j].at
        /\ ~getResourcesCalls[j].hit
        /\ getResourcesCalls[j].err # ""
        /\ key \notin DOMAIN getResourcesCalls[j].after

\* The request in progress fails the validation of the parser.
FailsValidation == pc # "idle" /\ GetConfigFromRequest(request).err # ""

\* C16: a request that fails validation is answered with status 400 and the
\* validation message, and nothing else happens for it: no inventory-API call, no
\* metrics-API call, no call of getResources, and the cache stays as it was.
C16_RejectedBeforeAnyCall ==
    /\ [](FailsValidation =>
            /\ pc = "done"
            /\ httpStatus = 400
            /\ httpError = GetConfigFromRequest(request).err
            /\ graphCalls = <<>> /\ metricsCalls = <<>>
            /\ discovery = "none" /\ fetch = "none"
            /\ ch = EmptyBag)
    /\ [][FailsValidation' =>
            /\ queryCache' = queryCache
            /\ getResourcesCalls' = getResourcesCalls
            /\ metricsClients' = metricsClients]_vars

\* C16 witness: a request was turned down with status 400 while the cache held
\* an entry.
C16_Witness ==
    /\ FailsValidation
    /\ httpStatus = 400
    /\ httpError = "'resourceType' parameter must be specified once"
    /\ queryCache # EmptyMap


----------------------------------------------------------------------------
(* Properties of the sample names (specification Spec)                     *)

\* The name segments the sanitizers can produce for the namespaces, metric names
\* and units the metrics API answers with.
SanitizedNamespaces == {"microsoft_compute_virtualmachines", "custom_ns"}

SanitizedUnits == {"count", "percent"}

\* The sanitized namespace, metric name and unit and the aggregation kind of a
\* sample name are in their places.
WellFormedName(fqName) ==
    /\ Len(fqName) = 5
    /\ fqName[2] \in SanitizedNamespaces
    /\ fqName[3] # ""
    /\ fqName[4] \in Kinds
    /\ fqName[5] \in SanitizedUnits

\* C20 (as claimed): every sample sent for a request is named
\* <prefix>_<namespace>_<metric name>_<aggregation>_<unit>, the prefix being the
\* metricPrefix configured for that request.
C20_NameStartsWithConfiguredPrefix ==
    config # Nil =>
        \A m \in Samples(ch) :
            /\ WellFormedName(m.fqName)
            /\ m.fqName[1] = Deref(config).MetricPrefix

\* C20 failing input: a sample was sent for a request that configures a prefix
\* other than the default.
C20_SampleUnderCustomPrefix ==
    /\ config # Nil
    /\ Deref(config).MetricPrefix = "custom"
    /\ \E m \in Samples(ch) : m.fqName[1] = "azure_monitor"


----------------------------------------------------------------------------
(* Properties of the sample labels (specification SpecFetch)               *)

\* The extra labels discovery recorded for a resource ID.
ExtraLabels(id) ==
    IF id \in DOMAIN resources.AdditionalLabels THEN resources.AdditionalLabels[id]
    ELSE EmptyMap

\* The label map carries every label of the map `part`.
Carries(labels, part) ==
    \A l \in DOMAIN part : l \in DOMAIN labels /\ labels[l] = part[l]

\* The metadata labels of a metric entity: those of its first time series.
MetadataLabels(metricValue) ==
    LET metadata == metricValue.TimeSeries[1].MetadataValues IN
    [l \in {metadata[i].Name : i \in DOMAIN metadata} |->
        (CHOOSE d \in Range(metadata) : d.Name = l).Value]

\* The labels subscription_id, region and instance of a sample of a resource.
BaseLabels(subscriptionID, metric) ==
    ("subscription_id" :> subscriptionID)
      @@ ("region" :> metric.ResourceRegion)
      @@ ("instance" :> metric.ResourceID)

\* A resource that comes with one healthy metric entity of unit Count, whose one
\* data point carries the aggregation average and no other.
OneAverage(metric) ==
    /\ Len(metric.Values) = 1
    /\ ~ReportsError(metric.Values[1])
    /\ metric.Values[1].Unit = "Count"
    /\ Len(metric.Values[1].TimeSeries) = 1
    /\ Len(metric.Values[1].TimeSeries[1].Data) = 1
    /\ PointValues(metric.Values[1].TimeSeries[1].Data[1])["average"] # Nil
    /\ \A k \in Kinds \ {"average"} :
           PointValues(metric.Values[1].TimeSeries[1].Data[1])[k] = Nil

\* C21: every sample belongs to a metric entity of the answer and carries
\* subscription_id = the subscription of the bucket, region = the resource region
\* of the entity, instance = its resource ID, the extra labels discovery recorded
\* for that resource ID and the metadata labels of the entity; and a resource
\* with one metric of unit Count and one data point with an average yields the
\* one sample azure_monitor_<namespace>_<metric>_average_count with that value
\* and exactly those labels.
C21_SampleLabels ==
    (lastResp # Nil /\ ~Deref(lastResp).err) =>
        /\ \A m \in Samples(ch) :
              \E e \in Entities :
                  /\ m.fqName[3] = SanitizeName(e[2].Name)
                  /\ e[2].TimeSeries # <<>>
                  /\ Carries(m.labels, BaseLabels(metricsCalls[1].subscriptionID, e[1]))
                  /\ Carries(m.labels, ExtraLabels(e[1].ResourceID))
                  /\ Carries(m.labels, MetadataLabels(e[2]))
        /\ \A md \in Range(Deref(lastResp).Values) :
              OneAverage(md) =>
                  {m \in Samples(ch) : m.labels["instance"] = md.ResourceID}
                    = {[type   |-> "sample",
                        fqName |-> <<"azure_monitor", "microsoft_compute_virtualmachines",
                                     SanitizeName(md.Values[1].Name), "average", "count">>,
                        help   |-> <<md.Values[1].LocalizedValue,
                                     md.Values[1].DisplayDescription>>,
                        labels |-> MetadataLabels(md.Values[1])
                                     @@ ExtraLabels(md.ResourceID)
                                     @@ BaseLabels(metricsCalls[1].subscriptionID, md),
                        value  |-> Deref(md.Values[1].TimeSeries[1].Data[1].Average)]}

\* C21 witness: a sample carries an extra label of discovery and a metadata label
\* next to subscription_id, region and instance, and a resource with one average
\* has its sample.
C21_Witness ==
    /\ lastResp # Nil /\ ~Deref(lastResp).err
    /\ \E m \in Samples(ch) :
          /\ DOMAIN m.labels = {"subscription_id", "region", "instance", "env", "dim"}
          /\ m.labels["env"] = "prod" /\ m.labels["dim"] = "a"
          /\ m.labels["subscription_id"] = "sub1" /\ m.labels["region"] = "westeurope"
    /\ \E md \in Range(Deref(lastResp).Values) :
          /\ OneAverage(md)
          /\ \E m \in Samples(ch) :
                m.labels["instance"] = md.ResourceID /\ m.fqName[4] = "average"


----------------------------------------------------------------------------
(* Properties of the collection timeout (specification SpecTimeout)        *)

\* The header is a whole number of seconds, written with an optional sign.
IsWholeNumber(v) == v # <<>> /\ ParseInt64(v).ok

\* The seconds the request declares: those of the header, 10 when the header is
\* absent or zero.
DeclaredSeconds(v) ==
    IF v = <<>> \/ ParseInt64(v).v = Int64(0) THEN Int64(10) ELSE ParseInt64(v).v

\* C22 (as claimed): for every value of the scrape-timeout header the collection
\* timeout is the declared number of seconds (10 when the header is absent or
\* zero) less half a second, and it is never below a minimal positive duration.
C22_TimeoutPositive ==
    timeout # Nil =>
        /\ (header = <<>> \/ IsWholeNumber(header))
              => Deref(timeout)
                   = Millisecond(Add(Mul(DeclaredSeconds(header), 1000), Int64(0 - 500)))
        /\ ~IsNegative(Deref(timeout))
        /\ Deref(timeout) # Int64(0)

\* C22 failing input: the header declares -1 second and the timeout is negative.
C22_NegativeTimeout ==
    /\ header = <<"-", "1">>
    /\ timeout = Ptr(Millisecond(Int64(0 - 1500)))


----------------------------------------------------------------------------
(* Properties of the metrics clients (specification SpecClients)           *)

\* The region of a call had a client in the cache when the call looked it up.
HadClient(call) == call.location \in DOMAIN call.before

\* Call j was made when call i had returned.
MadeAfter(j, i) == i <= clientCalls[j].seen

\* What the claim says of each call by itself: a client is constructed exactly
\* when the lookup finds none, a hit returns the cached client and stores
\* nothing, a failed construction returns an error and no client and stores
\* nothing, and a construction that succeeds is stored and returned.
ConstructsWhenNoneCached ==
    \A j \in DOMAIN clientCalls :
        LET call == clientCalls[j] IN
        /\ call.constructed <=> ~HadClient(call)
        /\ HadClient(call) =>
              /\ call.err = ""
              /\ call.client = Ptr(call.before[call.location].value)
              /\ ~call.wrote
        /\ call.err # "" =>
              /\ call.client = Nil
              /\ ~call.wrote
        /\ (~HadClient(call) /\ call.err = "") =>
              /\ call.client # Nil
              /\ call.wrote
              /\ call.after[call.location].value = Deref(call.client)

\* Only a call that succeeds after a miss changes the cache, and it changes
\* only the entry of its region.
OnlySuccessStores ==
    metricsClients' # metricsClients =>
        /\ Len(clientCalls') = Len(clientCalls) + 1
        /\ LET call == clientCalls'[Len(clientCalls')] IN
             /\ call.err = "" /\ call.constructed
             /\ \A l \in DOMAIN metricsClients \ {call.location} :
                    l \in DOMAIN metricsClients' /\ metricsClients'[l] = metricsClients[l]

\* A call made after a call for its region has succeeded returns the client of
\* that call and constructs nothing.
SameClientEverAfter ==
    \A i, j \in DOMAIN clientCalls :
        ( /\ MadeAfter(j, i)
          /\ clientCalls[i].location = clientCalls[j].location
          /\ clientCalls[i].err = "" )
        => /\ clientCalls[j].err = ""
           /\ clientCalls[j].client = clientCalls[i].client
           /\ ~clientCalls[j].constructed

\* C23 (as claimed): getMetricsClient constructs a client only when its region
\* has none in the cache; once a call for a region has succeeded, every later
\* call for that region, at whatever time, returns that same client and
\* constructs nothing; a construction that fails is returned as an error,
\* without a client, and leaves the cache as it was.
C23_ClientConstructedOnce ==
    /\ [](ConstructsWhenNoneCached /\ SameClientEverAfter)
    /\ [][OnlySuccessStores]_vars

\* C23 failing input: two calls for one region both looked before either had
\* stored; both constructed and stored, and a call made after both had returned
\* got the client of the second, not the client the first had returned.
C23_OverlappingFirstCalls ==
    /\ Len(clientCalls) = 3
    /\ \A i \in 1..3 : clientCalls[i].location = "westeurope" /\ clientCalls[i].err = ""
    /\ clientCalls[1].seen = 0 /\ clientCalls[2].seen = 0
    /\ clientCalls[1].constructed /\ clientCalls[2].constructed
    /\ clientCalls[1].client # clientCalls[2].client
    /\ "westeurope" \in DOMAIN Deref(clientCalls[2].during)
    /\ clientCalls[3].seen = 2
    /\ ~clientCalls[3].constructed
    /\ clientCalls[3].client = clientCalls[2].client
    /\ clientCalls[3].client # clientCalls[1].client

\* No call of getMetricsClient was made while another was under way.
OneAfterTheOther ==
    /\ \A j \in DOMAIN clientCalls : clientCalls[j].seen = j - 1
    /\ Cardinality({c \in CallerIds : callers[c].pc # "idle"}) <= 1
    /\ \A c \in CallerIds :
          callers[c].pc # "idle" => Deref(callers[c].got).seen = Len(clientCalls)

\* The part of C23 that holds: each call by itself does what the claim says, a
\* failed construction stores nothing, and among calls made one after the other
\* every call after a success returns the client of that success.
C23_UnlessCallsOverlap ==
    /\ [](ConstructsWhenNoneCached /\ (OneAfterTheOther => SameClientEverAfter))
    /\ [][OnlySuccessStores]_vars

\* A construction failed, the next call for the region constructed a client, and
\* a call made later in time returned that client: three calls one after the
\* other.
C23_OneAfterTheOtherSeen ==
    /\ OneAfterTheOther
    /\ Len(clientCalls) = 3
    /\ clientCalls[1].location = clientCalls[2].location
    /\ clientCalls[2].location = clientCalls[3].location
    /\ clientCalls[1].err # "" /\ clientCalls[1].after = EmptyMap
    /\ clientCalls[2].err = "" /\ clientCalls[2].constructed
    /\ clientCalls[3].at > clientCalls[2].returned
    /\ ~clientCalls[3].constructed
    /\ clientCalls[3].client = clientCalls[2].client


----------------------------------------------------------------------------
(* Properties of failed discovery (specification SpecRetry)                *)

\* The key a call of getResources looks up: that of its query text, resource type
\* and subscriptions.
KeyOf(call) == [sha256 |-> <<call.config.Query, "-", call.config.ResourceType, "-">>
                              \o JoinComma(DiscoveryParameters(call)[3])]

\* The answer of the inventory API that ended a discovery pass is a failure: the
\* call failed, the data is no array, or a row lacks one of id, subscriptionId and
\* location as a string.
LastPageFailed(call) ==
    LET last == call.calls[Len(call.calls)].response IN
    \/ last.err
    \/ last.Data = Nil
    \/ ~Deref(last.Data).isArray
    \/ \E i \in DOMAIN Deref(last.Data).rows :
          LET row == Deref(last.Data).rows[i] IN
          \/ ~row.isMap
          \/ \E f \in {"id", "subscriptionId", "location"} :
                f \notin DOMAIN row.fields \/ ~IsString(row.fields[f])

\* C24: a call of getResources whose discovery pass ends on a failed page, also
\* after pages that were accepted, returns an error and no inventory and writes
\* nothing to the cache, which then holds no entry under the key of the call; the
\* next request with that key is not served from the cache and runs discovery. (A
\* call with a zero TTL looks up no key and leaves the entries of the cache as
\* they are.)
C24_FailedDiscoveryStoresNothing ==
    \A j \in DOMAIN getResourcesCalls :
        LET call == getResourcesCalls[j] IN
        /\ (call.calls # <<>> /\ LastPageFailed(call)) => call.err # ""
        /\ call.err # "" =>
              /\ call.resources = Nil
              /\ ~call.hit
              /\ \A k \in DOMAIN call.after :
                     k \in DOMAIN call.before /\ call.after[k] = call.before[k]
              /\ call.config.QueryCacheCacheExpiration # 0
                     => KeyOf(call) \notin DOMAIN call.after
              /\ \A n \in DOMAIN getResourcesCalls :
                     ( /\ n = j + 1
                       /\ call.config.QueryCacheCacheExpiration # 0
                       /\ getResourcesCalls[n].config.QueryCacheCacheExpiration # 0
                       /\ KeyOf(getResourcesCalls[n]) = KeyOf(call) )
                     => /\ ~getResourcesCalls[n].hit
                        /\ Passes(getResourcesCalls[n].calls) = 1

\* C24 witness: discovery failed on its second page after the first was accepted,
\* nothing was stored, and the next request with the key ran discovery again and
\* got an inventory.
C24_Witness ==
    /\ Len(getResourcesCalls) = 2
    /\ getResourcesCalls[1].config.QueryCacheCacheExpiration # 0
    /\ Len(getResourcesCalls[1].calls) = 2
    /\ getResourcesCalls[1].err # ""
    /\ getResourcesCalls[1].resources = Nil
    /\ getResourcesCalls[1].after = EmptyMap
    /\ KeyOf(getResourcesCalls[2]) = KeyOf(getResourcesCalls[1])
    /\ getResourcesCalls[2].config.QueryCacheCacheExpiration # 0
    /\ getResourcesCalls[2].calls # <<>>
    /\ getResourcesCalls[2].err = ""


----------------------------------------------------------------------------
(* Properties of the subscription scope (specification SpecScope)          *)

\* The subscriptions a request asks for: the values of subscriptionID, in their
\* absence those of subscriptionID[], and otherwise the list of the process.
Supplied(req) ==
    IF "subscriptionID" \in DOMAIN req /\ req["subscriptionID"] # <<>>
    THEN req["subscriptionID"]
    ELSE IF "subscriptionID[]" \in DOMAIN req /\ req["subscriptionID[]"] # <<>>
    THEN req["subscriptionID[]"]
    ELSE <<"sub1", "sub2">>

\* The key of a call for a list of subscriptions.
KeyWith(call, subscriptions) ==
    [sha256 |-> <<call.config.Query, "-", call.config.ResourceType, "-">>
                   \o JoinComma(subscriptions)]

\* getResources has returned for the request in progress.
Discovered ==
    pc \in {"fetch_metrics", "done"} /\ config # Nil /\ getResourcesCalls # <<>>

\* C25: every inventory request of a call of getResources is scoped to the
\* subscriptions the request supplies with subscriptionID or, in its absence,
\* subscriptionID[], and to the list of the process when it supplies none; with a
\* TTL the entry the call reads or writes is the one under the key of that same
\* list.
C25_ScopeQueriedIsScopeHashed ==
    Discovered =>
        LET call  == getResourcesCalls[Len(getResourcesCalls)]
            scope == Supplied(request)
            key   == KeyWith(call, scope)
        IN
        /\ \A i \in DOMAIN graphCalls : graphCalls[i].subscriptions = scope
        /\ call.config.QueryCacheCacheExpiration # 0 =>
              /\ call.hit => /\ key \in DOMAIN call.before
                             /\ call.resources = Ptr(call.before[key].value)
              /\ (~call.hit /\ call.err = "") =>
                    /\ key \in DOMAIN call.after
                    /\ call.after[key].value = Deref(call.resources)
                    /\ \A k \in DOMAIN call.after \ {key} :
                           k \in DOMAIN call.before /\ call.after[k] = call.before[k]

\* C25 witness: a request that lists its subscriptions with subscriptionID[] ran
\* discovery in two requests scoped to them and stored the inventory under their
\* key, next to the entry of a request that listed none.
C25_Witness ==
    /\ Discovered
    /\ Supplied(request) = <<"sub3", "sub1">>
    /\ "subscriptionID" \notin DOMAIN request
    /\ Len(graphCalls) = 2
    /\ \A i \in DOMAIN graphCalls : graphCalls[i].subscriptions = <<"sub3", "sub1">>
    /\ Cardinality(DOMAIN queryCache) = 2
    /\ \E k \in DOMAIN queryCache :
          k.sha256 = <<"Resources", "-", "Microsoft.Compute/virtualMachines", "-",
                       "sub3", ",", "sub1">>


----------------------------------------------------------------------------
(* Properties of the discovery loop (specification SpecPaging)             *)

\* The continuation token a response hands out ("" when it has none).
TokenReturned(response) ==
    IF response.SkipToken = Nil THEN "" ELSE Deref(response.SkipToken)

\* The rows of all fetched pages, page after page.
FetchedRows ==
    Flatten([i \in DOMAIN graphCalls |-> Deref(graphCalls[i].response.Data).rows])

\* The list holds the ids of the fetched rows of one (location, subscriptionId)
\* and nothing else, every id at the place its row has among those rows.
HoldsIDsFetched(list, location, subscriptionId) ==
    LET rows == FetchedRows
        mine == {i \in DOMAIN rows : /\ rows[i].fields["location"].v = location
                                     /\ rows[i].fields["subscriptionId"].v = subscriptionId}
    IN /\ Len(list) = Cardinality(mine)
       /\ \A i \in mine :
              list[Cardinality({j \in mine : j < i}) + 1] = rows[i].fields["id"].v

\* The inventory has a bucket for every (location, subscriptionId) of a fetched
\* row and no other, each with its ids in page-then-row order.
InventoryIsFetchedRows ==
    LET rows == FetchedRows IN
    /\ DOMAIN resources.Resources = {rows[i].fields["location"].v : i \in DOMAIN rows}
    /\ \A l \in DOMAIN resources.Resources :
          /\ DOMAIN resources.Resources[l]
                = {rows[i].fields["subscriptionId"].v :
                       i \in {j \in DOMAIN rows : rows[j].fields["location"].v = l}}
          /\ \A sub \in DOMAIN resources.Resources[l] :
                HoldsIDsFetched(resources.Resources[l][sub], l, sub)

\* The discovery loop, request by request.
PaginationFollowsTokens ==
    /\ graphCalls # <<>> => graphCalls[1].skipToken = ""
    /\ \A i \in 1..(Len(graphCalls) - 1) :
          /\ ~graphCalls[i].response.err
          /\ TokenReturned(graphCalls[i].response) # ""
          /\ graphCalls[i + 1].skipToken = TokenReturned(graphCalls[i].response)
    /\ (pc = "query_resources" /\ graphCalls # <<>>)
          => TokenReturned(graphCalls[Len(graphCalls)].response) # ""
    /\ discovery = "ok" =>
          /\ TokenReturned(graphCalls[Len(graphCalls)].response) = ""
          /\ InventoryIsFetchedRows

\* C26: the first inventory request carries the empty continuation token, every
\* later one the token of the response before it, and no request follows a
\* response whose token is absent or empty; a discovery that succeeds returns the
\* id of every row of every fetched page in the bucket of its (location,
\* subscriptionId), in page-then-row order; and a discovery that has started
\* comes to its end.
C26_Pagination ==
    /\ []PaginationFollowsTokens
    /\ (pc = "query_resources") ~> (discovery # "none")

\* C26 witness: a discovery of two pages for one bucket ended on an empty token
\* with the rows of both pages in the bucket.
C26_Witness ==
    /\ discovery = "ok"
    /\ Len(graphCalls) = 2
    /\ graphCalls[2].skipToken = "tok1"
    /\ graphCalls[2].response.SkipToken = Ptr("")
    /\ \E l \in DOMAIN resources.Resources : \E sub \in DOMAIN resources.Resources[l] :
          /\ Len(resources.Resources[l][sub]) = Len(FetchedRows)
          /\ Len(resources.Resources[l][sub]) > Len(Deref(graphCalls[1].response.Data).rows)


----------------------------------------------------------------------------
(* Properties of the order of the metrics-API calls (specification Spec)   *)

SameBucket(c, d) == c.location = d.location /\ c.subscriptionID = d.subscriptionID

IsPrefix(s, t) == Len(s) <= Len(t) /\ s = SubSeq(t, 1, Len(s))

\* The calls of a bucket stand next to each other in the order of issue and their
\* batches, put end to end, are a front part of the bucket's list.
BatchesInOrder ==
    /\ \A i, k \in DOMAIN metricsCalls :
          (i < k /\ SameBucket(metricsCalls[i], metricsCalls[k]))
             => \A j \in i..k : SameBucket(metricsCalls[i], metricsCalls[j])
    /\ \A b \in Buckets(resources) :
          IsPrefix(Flatten(BatchesFor(b[1], b[2])), resources.Resources[b[1]][b[2]])

\* A failed call is the last call of its request, and the fetch has returned an
\* error with it.
FailedCallIsLast ==
    \A i \in DOMAIN metricsCalls :
        metricsCalls[i].failed =>
            /\ i = Len(metricsCalls)
            /\ pc = "done"
            /\ fetch = "error"

\* Every resource of the last response whose first metric has data has its
\* samples in the sink.
LastResponseProcessed ==
    lastResp # Nil =>
        \A md \in Range(Deref(lastResp).Values) :
            HasData(md.Values[1]) => \E m \in Samples(ch) : m.labels["instance"] = md.ResourceID

\* A call is issued one at a time, after the response to the call before it has
\* been processed and only when that call did not fail.
IssuedAfterProcessing ==
    metricsCalls' # metricsCalls =>
        /\ metricsCalls = SubSeq(metricsCalls', 1, Len(metricsCalls') - 1)
        /\ metricsCalls # <<>> =>
              /\ ~metricsCalls[Len(metricsCalls)].failed
              /\ LastResponseProcessed

\* C27: the batches of one (region, subscription) bucket are issued one at a time
\* in the order of the bucket's list, each after the response to the one before
\* has been processed; when a call fails the fetch returns an error at once, and
\* no further metrics-API call is issued for any batch or bucket left.
C27_SequentialUntilFailure ==
    /\ [](BatchesInOrder /\ FailedCallIsLast)
    /\ [][IssuedAfterProcessing]_vars

\* C27 witness: the second batch of a bucket failed after its first had been
\* answered, while a whole other bucket was still to be fetched.
C27_Witness ==
    /\ Completed
    /\ fetch = "error"
    /\ Len(metricsCalls) >= 2
    /\ metricsCalls[Len(metricsCalls)].failed
    /\ SameBucket(metricsCalls[1], metricsCalls[2])
    /\ \E b \in Buckets(resources) : CallsFor(b[1], b[2]) = <<>>


----------------------------------------------------------------------------
(* Properties of the sink of a failed fetch (specification Spec)           *)

\* The resources a batch was answered for with data whatever the answer was: all
\* but the first of the batch.
AnsweredWithData(call) ==
    IF call.failed THEN {}
    ELSE {call.resourceIDs[j] : j \in 2..Len(call.resourceIDs)}

\* The sink holds a sample of the resource under the subscription of the call.
HoldsSampleOf(sink, call, id) ==
    \E m \in Samples(sink) :
        m.labels["instance"] = id /\ m.labels["subscription_id"] = call.subscriptionID

\* While the fetch runs and when it returns, nothing that was sent is taken out
\* of the sink.
NothingWithdrawn ==
    pc = "fetch_metrics" =>
        /\ ch \sqsubseteq ch'
        /\ \A m \in Samples(ch) : BagIn(m, ch')

\* The error a failed fetch returned: that of the batch call that failed, or
\* that of getMetricsClient when no batch call failed.
FetchError ==
    IF metricsCalls # <<>> /\ metricsCalls[Len(metricsCalls)].failed
    THEN "error querying metrics" ELSE "error get metrics client"

\* C28: when a batch call fails, or a later bucket gets no client, the sink of
\* the scrape holds the samples of the batches answered before together with
\* one invalid-metric marker, that of the failure, and success=0; no step of the
\* fetch takes a sample out of the sink.
C28_PartialSamplesKept ==
    /\ []((Completed /\ fetch = "error") =>
            /\ BagIn(InvalidMetric(FetchError), ch)
            /\ HowMany(ch, "invalid") = 1
            /\ BagIn(SuccessGauge(0), ch)
            /\ ~BagIn(SuccessGauge(1), ch)
            /\ \A i \in DOMAIN metricsCalls :
                   \A id \in AnsweredWithData(metricsCalls[i]) :
                       HoldsSampleOf(ch, metricsCalls[i], id))
    /\ [][NothingWithdrawn]_vars

\* C28 witness: a fetch failed at its third call; the sink holds samples of the
\* two batches answered before, the marker and success=0.
C28_Witness ==
    /\ Completed
    /\ fetch = "error"
    /\ Len(metricsCalls) = 3
    /\ metricsCalls[3].failed
    /\ \A i \in 1..2 :
          /\ AnsweredWithData(metricsCalls[i]) # {}
          /\ \A id \in AnsweredWithData(metricsCalls[i]) : HoldsSampleOf(ch, metricsCalls[i], id)
    /\ BagIn(InvalidMetric("error querying metrics"), ch)
    /\ BagIn(SuccessGauge(0), ch)


----------------------------------------------------------------------------
(* Properties of requests served side by side (specification SpecConcurrent) *)

\* The cache key of the request of a task.
TaskKey(t) == CacheKey(Deref(tasks[t].config))

\* The task has run discovery itself.
RanDiscovery(t) == tasks[t].ran # Nil

\* getResources of the task has returned.
Returned(t) == tasks[t].pc = "done"

\* The step is the write of Set by task t.
StoresNow(t) == tasks[t].pc = "set_store" /\ tasks'[t].pc = "done"

\* A task that has returned after a miss returns what its own discovery call
\* returned, error and inventory; a task that has returned on a hit returns,
\* without error, an inventory some task stored whole under its key.
ReturnsOwnDiscovery ==
    \A t \in TaskIds :
        Returned(t) =>
            IF RanDiscovery(t)
            THEN /\ tasks[t].resources = Deref(tasks[t].ran).resources
                 /\ tasks[t].err = Deref(tasks[t].ran).err
                 /\ tasks[t].err = "" <=> tasks[t].resources # Nil
            ELSE /\ tasks[t].err = ""
                 /\ \E e \in stored :
                        e.key = TaskKey(t) /\ tasks[t].resources = Ptr(e.value)

\* A task that has missed runs discovery before it stores: none stores or waits
\* to store without an inventory of its own.
MissRunsDiscovery ==
    \A t \in TaskIds :
        tasks[t].pc \in {"set_lock", "set_store"} =>
            /\ RanDiscovery(t)
            /\ Deref(tasks[t].ran).err = ""
            /\ tasks[t].resources = Deref(tasks[t].ran).resources

\* After a task has stored, the cache holds under its key the inventory of that
\* task's discovery; the entry of a key otherwise changes with no step.
LastStoreWins ==
    /\ \A t \in TaskIds :
          StoresNow(t) =>
              /\ TaskKey(t) \in DOMAIN queryCache'
              /\ Ptr(queryCache'[TaskKey(t)].value) = Deref(tasks[t].ran).resources
    /\ \A k \in DOMAIN queryCache \cap DOMAIN queryCache' :
          queryCache'[k] # queryCache[k] => \E t \in TaskIds : StoresNow(t) /\ TaskKey(t) = k

\* C29: of requests that miss under one cache key before either has stored, each
\* runs discovery itself and returns the inventory (or the error) of its own
\* discovery call, never an error or a part of an inventory of another request,
\* and the cache holds under the key the inventory of the request that stored
\* last.
C29_EachMissDiscovers ==
    /\ [](ReturnsOwnDiscovery /\ MissRunsDiscovery)
    /\ [][LastStoreWins]_vars

\* C29 witness: with no time passed, two requests of one cache key have both
\* missed, run discovery with different answers and stored; each has returned
\* its own inventory and the cache holds that of one of them.
C29_Witness ==
    /\ now = 0
    /\ \A t \in {1, 2} : Returned(t) /\ RanDiscovery(t) /\ tasks[t].err = ""
    /\ TaskKey(1) = TaskKey(2)
    /\ ~BypassesCache(Deref(tasks[1].config)) /\ ~BypassesCache(Deref(tasks[2].config))
    /\ tasks[1].resources # tasks[2].resources
    /\ Cardinality({e \in stored : e.key = TaskKey(1)}) = 2
    /\ Ptr(queryCache[TaskKey(1)].value) = tasks[1].resources


----------------------------------------------------------------------------
(* Properties of the cache under concurrent calls (specification SpecConcurrent) *)

\* The task is between the Lock and the Unlock of a Get or a Set.
InCache(t) == tasks[t].pc \in {"get_lookup", "get_return", "set_store"}

\* At most one task is inside Get or Set, and it is the holder of the mutex.
MutuallyExclusive ==
    /\ Cardinality({t \in TaskIds : InCache(t)}) <= 1
    /\ \A t \in TaskIds : InCache(t) <=> lock = Ptr(t)

\* The step is the return of the Get of task t.
GetReturnsNow(t) ==
    tasks[t].pc = "get_return" /\ tasks'[t].pc \in {"done", "query_resources"}

\* A Get that returns reports a miss, or a value a Set has stored under its key
\* and that has not expired; it reports what a Get run in one piece at the time
\* of its return reports.
GetReturnsStored ==
    \A t \in TaskIds :
        GetReturnsNow(t) =>
            /\ \/ tasks'[t].pc = "query_resources" /\ tasks'[t].resources = Nil
               \/ /\ tasks'[t].pc = "done"
                  /\ \E e \in stored :
                         /\ e.key = TaskKey(t)
                         /\ tasks'[t].resources = Ptr(e.value)
                         /\ now <= e.expiration
            /\ tasks'[t].resources = CacheGet(queryCache, TaskKey(t), now).value
            /\ queryCache' = CacheGet(queryCache, TaskKey(t), now).cache

\* A key leaves the map only in the return of a Get of that key, and only when
\* its entry has expired.
EvictedByOwnGet ==
    \A k \in DOMAIN queryCache \ DOMAIN queryCache' :
        /\ queryCache[k].expiration < now
        /\ \E t \in TaskIds : GetReturnsNow(t) /\ TaskKey(t) = k

\* C30: Get and Set of one cache exclude each other; under every interleaving a
\* Get returns a miss or a value an earlier Set stored under the same key and
\* that has not expired; and an entry is deleted only by a Get of its key that
\* finds it expired, never by a Set, by a Get of another key or by the clock.
C30_CacheCallsAtomic ==
    /\ []MutuallyExclusive
    /\ [][GetReturnsStored /\ EvictedByOwnGet]_vars

\* C30 witness: the entry one request stored outlived its expiration in the map
\* until the Get of a later request of the same key found it, reported a miss and
\* deleted it; that request has stored its own inventory since.
C30_Witness ==
    \E t, u \in TaskIds :
        /\ t # u
        /\ Returned(t) /\ Returned(u)
        /\ TaskKey(t) = TaskKey(u)
        /\ RanDiscovery(t) /\ RanDiscovery(u)
        /\ tasks[t].err = "" /\ tasks[u].err = ""
        /\ TaskKey(u) \in DOMAIN queryCache
        /\ tasks[u].looked # Nil
        /\ Deref(tasks[u].looked).ok
        /\ Deref(Deref(tasks[u].looked).entry).value = Deref(tasks[t].resources)
        /\ Deref(Deref(tasks[u].looked).entry).expiration < now
        /\ tasks[t].resources # tasks[u].resources
        /\ Ptr(queryCache[TaskKey(u)].value) = tasks[u].resources


----------------------------------------------------------------------------
(* Properties of the inventory during fetch (specification SpecCache)      *)

\* No step of a fetch changes the inventory it ranges over or an entry of the
\* inventory cache.
FetchLeavesInventory ==
    pc = "fetch_metrics" =>
        /\ resources' = resources
        /\ queryCache' = queryCache

\* A call served from the cache returns an inventory exactly as the discovery of
\* an earlier call with its key returned it, whatever was fetched in between.
HitReturnsDiscovered ==
    \A j \in DOMAIN getResourcesCalls :
        getResourcesCalls[j].hit =>
            \E i \in 1..(j - 1) :
                /\ ~getResourcesCalls[i].hit
                /\ getResourcesCalls[i].err = ""
                /\ KeyOf(getResourcesCalls[i]) = KeyOf(getResourcesCalls[j])
                /\ getResourcesCalls[j].resources = getResourcesCalls[i].resources

\* While and after a request fetches, its inventory is the one its call of
\* getResources returned.
FetchedInventoryAsReturned ==
    (pc \in {"fetch_metrics", "done"} /\ discovery = "ok" /\ getResourcesCalls # <<>>) =>
        Ptr(resources) = getResourcesCalls[Len(getResourcesCalls)].resources

\* C31: no fetch changes the inventory discovery returned: the buckets, the
\* resource-ID lists and the extra labels are after every step of the fetch what
\* they were before it, for the request that built the inventory and for every
\* later request that is served the same inventory from the cache.
C31_InventoryNeverMutated ==
    /\ [](HitReturnsDiscovered /\ FetchedInventoryAsReturned)
    /\ [][FetchLeavesInventory]_vars

\* C31 witness: a request served from the cache has fetched the metrics of an
\* inventory an earlier request discovered, stored and fetched from, and the
\* inventory is still that of the discovery.
C31_Witness ==
    /\ Len(getResourcesCalls) = 2
    /\ getResourcesCalls[2].hit
    /\ getResourcesCalls[1].resources = getResourcesCalls[2].resources
    /\ pc = "done"
    /\ fetch = "ok"
    /\ metricsCalls # <<>>
    /\ Ptr(resources) = getResourcesCalls[1].resources
    /\ Buckets(resources) # {}


----------------------------------------------------------------------------
(* Properties of data points at one timestamp (specification SpecFetch)    *)

\* The data points of a metric entity in the order of the response.
PointsInOrder(metricValue) ==
    Flatten([i \in DOMAIN metricValue.TimeSeries |-> metricValue.TimeSeries[i].Data])

\* The position of the first data point of the entity that carries its latest
\* timestamp.
FirstLatest(metricValue) ==
    LET points == PointsInOrder(metricValue) IN
    CHOOSE i \in DOMAIN points :
        /\ \A j \in DOMAIN points : points[j].TimeStamp <= points[i].TimeStamp
        /\ \A j \in 1..(i - 1) : points[j].TimeStamp < points[i].TimeStamp

\* Several data points of the entity carry its latest timestamp.
LatestShared(metricValue) ==
    LET points == PointsInOrder(metricValue) IN
    /\ points # <<>>
    /\ \E j \in DOMAIN points :
          /\ j # FirstLatest(metricValue)
          /\ points[j].TimeStamp = points[FirstLatest(metricValue)].TimeStamp

\* C32 (as claimed): when several data points of a metric entity that is not
\* skipped carry its latest timestamp, the value sent for an aggregation kind is
\* that of the first of them in the order of the response.
C32_FirstOfLatestWins ==
    (lastResp # Nil /\ ~Deref(lastResp).err) =>
        \A e \in Entities :
            (~ReportsError(e[2]) /\ LatestShared(e[2])) =>
                LET first == PointsInOrder(e[2])[FirstLatest(e[2])] IN
                \A kind \in Kinds :
                    /\ PointValues(first)[kind] # Nil => EmittedFor(e[1], e[2], kind) # {}
                    /\ \A m \in EmittedFor(e[1], e[2], kind) :
                           PointValues(first)[kind] = Ptr(m.value)

\* C32 failing input: the second metric entity of a resource has two data points
\* at timestamp 2, the first entity one at timestamp 3.
C32_TieBehindSibling ==
    /\ lastResp # Nil /\ ~Deref(lastResp).err
    /\ \E e \in Entities :
         /\ Len(e[1].Values) = 2 /\ e[2] = e[1].Values[2]
         /\ ~ReportsError(e[2]) /\ LatestShared(e[2])
         /\ ~ReportsError(e[1].Values[1])
         /\ \E d \in DataPoints(e[1].Values[1]) : d.TimeStamp = 3
         /\ \E m \in EmittedFor(e[1], e[2], "total") : m.value = 32

\* The tie rule where no other entity of the resource comes before: for the
\* first metric entity of a resource the first of the latest data points wins.
TieRuleOfFirstEntity ==
    (lastResp # Nil /\ ~Deref(lastResp).err) =>
        \A e \in Entities :
            (e[2] = e[1].Values[1] /\ ~ReportsError(e[2]) /\ LatestShared(e[2])) =>
                LET first == PointsInOrder(e[2])[FirstLatest(e[2])] IN
                \A kind \in Kinds :
                    /\ PointValues(first)[kind] # Nil => EmittedFor(e[1], e[2], kind) # {}
                    /\ \A m \in EmittedFor(e[1], e[2], kind) :
                           PointValues(first)[kind] = Ptr(m.value)


----------------------------------------------------------------------------
(* Properties of the samples per aggregation kind (specification SpecFetch) *)

\* A metric entity the loop passes over: it reports an error code or has no time
\* series.
PassedOver(metricValue) == ReportsError(metricValue) \/ metricValue.TimeSeries = <<>>

\* The values retained for a metric entity: those of the first of the entity's
\* own data points that carry its latest timestamp, all null when the entity has
\* no data point.
RetainedValues(metricValue) ==
    IF PointsInOrder(metricValue) = <<>> THEN [k \in Kinds |-> Nil]
    ELSE PointValues(PointsInOrder(metricValue)[FirstLatest(metricValue)])

\* The resources of the last response, each with the position of one of its
\* metric entities.
EntityPositions ==
    IF lastResp = Nil \/ Deref(lastResp).err THEN {}
    ELSE UNION {{<<md, j>> : j \in DOMAIN md.Values} : md \in Range(Deref(lastResp).Values)}

\* Each aggregation kind whose retained value is not null has exactly one sample
\* under the name of the entity, with the retained value, and each other kind has
\* none.
SamplePerRetainedKind(metric, metricValue) ==
    \A kind \in Kinds :
        LET sent     == EmittedFor(metric, metricValue, kind)
            retained == RetainedValues(metricValue)[kind]
        IN
        IF retained = Nil
        THEN sent = {}
        ELSE /\ Cardinality(sent) = 1
             /\ \A m \in sent : m.value = Deref(retained) /\ CopiesIn(m, ch) = 1

\* C33 (as claimed): for every metric entity that reports no error, each
\* aggregation kind whose value retained from the entity's data points is not
\* null has exactly one sample, with that value (zero only when that is zero),
\* and a kind whose retained value is null has none.
C33_OneSamplePerRetainedKind ==
    \A p \in EntityPositions :
        ~ReportsError(p[1].Values[p[2]]) =>
            SamplePerRetainedKind(p[1], p[1].Values[p[2]])

\* C33 failing input: the second metric entity of a resource retains an average
\* and a total from its own data points (latest timestamp 2), the first entity
\* has a data point at timestamp 3 with a total only; under the name of the
\* second entity the total of the first is sent and no average.
C33_KindsOfSibling ==
    \E p \in EntityPositions :
        LET first  == p[1].Values[1]
            second == p[1].Values[p[2]]
        IN
        /\ p[2] = 2
        /\ ~ReportsError(first) /\ ~ReportsError(second)
        /\ RetainedValues(first)["average"] = Nil
        /\ RetainedValues(first)["total"] = Ptr(32)
        /\ RetainedValues(second)["average"] = Ptr(121)
        /\ RetainedValues(second)["total"] = Ptr(122)
        /\ EmittedFor(p[1], second, "average") = {}
        /\ \E m \in EmittedFor(p[1], second, "total") : m.value = 32

\* The same where no other entity of the resource comes before: the first
\* metric entity of a resource has one sample per kind it retains, and an
\* entity that reports an error has none.
KindsOfFirstEntity ==
    \A p \in EntityPositions :
        LET metricValue == p[1].Values[p[2]] IN
        /\ (p[2] = 1 /\ ~ReportsError(metricValue)) =>
               SamplePerRetainedKind(p[1], metricValue)
        /\ ReportsError(metricValue) =>
               \A kind \in Kinds : EmittedFor(p[1], metricValue, kind) = {}

\* The first metric entity of a resource retains an average of zero and no
\* total and has exactly one sample, the average with value zero.
ZeroAverageSeen ==
    \E p \in EntityPositions :
        /\ p[2] = 1
        /\ RetainedValues(p[1].Values[1])["average"] = Ptr(0)
        /\ RetainedValues(p[1].Values[1])["total"] = Nil
        /\ \E m \in EmittedFor(p[1], p[1].Values[1], "average") : m.value = 0
        /\ EmittedFor(p[1], p[1].Values[1], "total") = {}


----------------------------------------------------------------------------
(* Properties of the data point behind the samples (specification SpecFetch) *)

\* Every sample sent under the name of the entity carries the value the data
\* point has for the kind of the sample.
AllFrom(data, metric, metricValue) ==
    \A kind \in Kinds :
        \A m \in EmittedFor(metric, metricValue, kind) : PointValues(data)[kind] = Ptr(m.value)

\* The entity has a data point older than its latest one that carries a kind the
\* latest one lacks.
EarlierCarries(metricValue, kind) ==
    LET points == PointsInOrder(metricValue) IN
    /\ points # <<>>
    /\ PointValues(points[FirstLatest(metricValue)])[kind] = Nil
    /\ \E i \in DOMAIN points :
          /\ points[i].TimeStamp < points[FirstLatest(metricValue)].TimeStamp
          /\ PointValues(points[i])[kind] # Nil

\* The samples of the entity all carry values of one of the entity's own latest
\* data points, and a kind for which the retained data point has no value has no
\* sample; an entity without a data point has no sample.
FromOwnLatestPoint(metric, metricValue) ==
    LET points == PointsInOrder(metricValue) IN
    IF points = <<>>
    THEN \A kind \in Kinds : EmittedFor(metric, metricValue, kind) = {}
    ELSE /\ \E i \in DOMAIN points :
                /\ AllFrom(points[i], metric, metricValue)
                /\ \A n \in DOMAIN points : points[n].TimeStamp <= points[i].TimeStamp
         /\ \A kind \in Kinds :
                RetainedValues(metricValue)[kind] = Nil
                    => EmittedFor(metric, metricValue, kind) = {}

\* C34 (as claimed): the samples of one metric entity all carry values of one and
\* the same data point, the latest of the entity; a kind for which that data
\* point has no value has no sample, also when an older data point carries the
\* kind.
C34_ValuesOfOneDataPoint ==
    \A p \in EntityPositions :
        ~ReportsError(p[1].Values[p[2]]) =>
            FromOwnLatestPoint(p[1], p[1].Values[p[2]])

\* C34 failing input: the latest data point of the second metric entity of a
\* resource has an average and no total, the newer latest data point of the
\* first entity a total; under the name of the second entity no average is sent
\* and a total that none of its data points carries.
C34_FilledFromSibling ==
    \E p \in EntityPositions :
        LET first  == p[1].Values[1]
            second == p[1].Values[p[2]]
        IN
        /\ p[2] = 2
        /\ ~ReportsError(first) /\ ~ReportsError(second)
        /\ PointsInOrder(second) # <<>>
        /\ RetainedValues(second)["total"] = Nil
        /\ RetainedValues(second)["average"] # Nil
        /\ EmittedFor(p[1], second, "average") = {}
        /\ \E m \in EmittedFor(p[1], second, "total") :
               /\ RetainedValues(first)["total"] = Ptr(m.value)
               /\ \A d \in DataPoints(second) : PointValues(d)["total"] # Ptr(m.value)

\* The same where no other entity of the resource comes before: the samples of
\* the first metric entity of a resource stem from its one retained data point.
OnePointOfFirstEntity ==
    \A p \in EntityPositions :
        (p[2] = 1 /\ ~ReportsError(p[1].Values[1])) =>
            FromOwnLatestPoint(p[1], p[1].Values[1])

\* The one metric entity of a resource has an older data point with an average
\* and a total and a latest one with a total only; its total is sent with the
\* latest value and no average is sent.
LatestLacksKindSeen ==
    \E p \in EntityPositions :
        /\ Len(p[1].Values) = 1
        /\ EarlierCarries(p[1].Values[1], "average")
        /\ EmittedFor(p[1], p[1].Values[1], "average") = {}
        /\ \E m \in EmittedFor(p[1], p[1].Values[1], "total") :
               Ptr(m.value) = RetainedValues(p[1].Values[1])["total"]


----------------------------------------------------------------------------
(* Properties of the metadata labels (specification SpecFetch)             *)

\* The samples sent under the name of one metric entity of one resource.
SamplesOf(metric, metricValue) ==
    UNION {EmittedFor(metric, metricValue, kind) : kind \in Kinds}

\* The labels of the sample that are neither subscription_id, region, instance
\* nor extra labels of discovery.
MetadataPart(m, metric) ==
    DOMAIN m.labels \ ({"subscription_id", "region", "instance"}
                          \cup DOMAIN ExtraLabels(metric.ResourceID))

\* The samples of the entity carry the metadata labels of the first time series
\* of the entity and no other metadata label.
OwnMetadataOnly(metric, metricValue) ==
    \A m \in SamplesOf(metric, metricValue) :
        /\ Carries(m.labels, MetadataLabels(metricValue))
        /\ MetadataPart(m, metric) \subseteq DOMAIN MetadataLabels(metricValue)

\* C35 (as claimed): the metadata labels on the samples of a metric entity are
\* those of the first time series of that entity, and no metadata label of
\* another entity of the resource is on them.
C35_OwnMetadataLabels ==
    \A e \in Entities : ~PassedOver(e[2]) => OwnMetadataOnly(e[1], e[2])

\* C35 failing input: the first metric entity of a resource has a time series
\* with the metadata label dim, the second entity has none, and a sample of the
\* second entity carries dim.
C35_LabelOfSibling ==
    \E e \in Entities :
        /\ Len(e[1].Values) = 2 /\ e[2] = e[1].Values[2]
        /\ ~PassedOver(e[2]) /\ ~PassedOver(e[1].Values[1])
        /\ "dim" \in DOMAIN MetadataLabels(e[1].Values[1])
        /\ MetadataLabels(e[2]) = EmptyMap
        /\ \E m \in SamplesOf(e[1], e[2]) :
               "dim" \in DOMAIN m.labels /\ m.labels["dim"] = "a"

\* The metadata labels where no other entity of the resource comes before: the
\* samples of the first metric entity carry its own metadata labels only.
MetadataOfFirstEntity ==
    \A e \in Entities :
        (e[2] = e[1].Values[1] /\ ~PassedOver(e[2])) => OwnMetadataOnly(e[1], e[2])


----------------------------------------------------------------------------
(* Properties of the row checks of discovery (specification SpecPaging)    *)

MandatoryColumns == {"subscriptionId", "location", "id"}

\* A row that lacks one of the three mandatory columns or has one that is not a
\* string, or that has a label_ column that is not a string.
FaultyRow(row) ==
    /\ row.isMap
    /\ \/ \E f \in MandatoryColumns : f \notin DOMAIN row.fields \/ ~IsString(row.fields[f])
       \/ \E k \in DOMAIN row.fields : HasLabelPrefix(k) /\ ~IsString(row.fields[k])

\* The rows the i-th inventory answer hands to the row loop (none when the
\* envelope checks reject the answer).
RowsHandedOver(i) == resourceGraphQuery(graphCalls[i].response).rows

\* The answer with a faulty row is the last one of the discovery, which ends in
\* an error without an inventory.
FaultyRowIsFatal ==
    \A i \in DOMAIN graphCalls :
        (\E n \in DOMAIN RowsHandedOver(i) : FaultyRow(RowsHandedOver(i)[n]))
           => /\ i = Len(graphCalls)
              /\ discovery = "error"
              /\ resources = EmptyResources

\* The extra-labels map of a resource ID holds the label_ columns of the row,
\* each under its name without the prefix and with the value of the column, and
\* no entry for any other column.
HoldsLabelColumnsOf(labels, row) ==
    LET labelKeys == {k \in DOMAIN row.fields : HasLabelPrefix(k)} IN
    /\ DOMAIN labels = {TrimLabelPrefix(k) : k \in labelKeys}
    /\ \A k \in labelKeys : labels[TrimLabelPrefix(k)] = row.fields[k].v
    /\ \A k \in DOMAIN row.fields \ labelKeys : k \notin DOMAIN labels

\* After a discovery that succeeded: a resource ID has an extra-labels map
\* exactly when a fetched row of it has more than the three mandatory columns,
\* and the map is that of the last such row.
LabelsAreLabelColumns ==
    LET rows   == FetchedRows
        extra  == {i \in DOMAIN rows : Cardinality(DOMAIN rows[i].fields) > 3}
        idOf(i) == rows[i].fields["id"].v
    IN discovery = "ok" =>
          /\ DOMAIN resources.AdditionalLabels = {idOf(i) : i \in extra}
          /\ \A i \in extra :
                (\A j \in extra : idOf(j) = idOf(i) => j <= i)
                   => HoldsLabelColumnsOf(resources.AdditionalLabels[idOf(i)], rows[i])

\* C36: discovery ends in an error, with no inventory, as soon as a row of a
\* page lacks subscriptionId, location or id, has one of them that is not a
\* string, or has a label_ column that is not a string; and when discovery
\* succeeds, every label_ column of an accepted row is in the extra-labels map
\* of the resource ID of that row under its name without the prefix, and no
\* other column of the row is in it.
C36_RowChecksAndLabels == FaultyRowIsFatal /\ LabelsAreLabelColumns

\* C36 witness: a discovery succeeded on rows with a label_ column and another
\* extra column, and the map of the first resource holds the label alone.
C36_Witness ==
    /\ discovery = "ok"
    /\ \E i \in DOMAIN FetchedRows :
          /\ {"label_env", "tags"} \subseteq DOMAIN FetchedRows[i].fields
          /\ resources.AdditionalLabels[FetchedRows[i].fields["id"].v] = ("env" :> "prod")

\* A second C36 witness: an answer whose second row has a location that is not
\* a string ended the discovery in an error.
C36_FaultyRowSeen ==
    /\ discovery = "error"
    /\ \E i \in DOMAIN graphCalls : \E n \in DOMAIN RowsHandedOver(i) :
          n > 1 /\ FaultyRow(RowsHandedOver(i)[n])


----------------------------------------------------------------------------
(* Properties of responses that lack fields (specifications SpecUpstream   *)
(* and Spec)                                                               *)

\* C37: no metrics response that lacks a namespace, a region, a resource ID, a
\* name, a unit, a description, a data-point timestamp or the error message next
\* to an error code makes the collection panic: each ends in an error returned
\* by fetchMetrics or in an entity passed over.
C37_NeverPanics == pc # "panic"

\* The collection panicked on a response of one resource that lacks its namespace.
C37_PanicOnMissingNamespace ==
    /\ pc = "panic"
    /\ httpStatus = 0
    /\ Len(Deref(lastResp).Values) = 1
    /\ Deref(lastResp).Values[1].Namespace = Nil

\* The collection panicked on an entity with an error code and no error message.
C37_PanicOnMissingErrorMessage ==
    /\ pc = "panic"
    /\ Len(Deref(lastResp).Values) = 1
    /\ LET metricValue == Deref(lastResp).Values[1].Values[1] IN
          /\ metricValue.ErrorCode = Ptr("Throttled")
          /\ metricValue.ErrorMessage = Nil

\* The collection panicked on a data point without a timestamp.
C37_PanicOnMissingTimeStamp ==
    /\ pc = "panic"
    /\ Len(Deref(lastResp).Values) = 1
    /\ LET metricValue == Deref(lastResp).Values[1].Values[1] IN
          /\ metricValue.ErrorCode = Nil
          /\ metricValue.TimeSeries # <<>>
          /\ metricValue.TimeSeries[1].Data # <<>>
          /\ metricValue.TimeSeries[1].Data[1].TimeStamp = Nil

\* The collection panicked on the second entity of a resource, which lacks its
\* name, after the sample of the first entity had been sent.
PanicAfterSampleSeen ==
    /\ pc = "panic"
    /\ Len(Deref(lastResp).Values) = 1
    /\ Len(Deref(lastResp).Values[1].Values) = 2
    /\ Deref(lastResp).Values[1].Values[2].Name = Nil
    /\ \E m \in Samples(ch) :
          /\ m.fqName[3] = SanitizeName("m1") /\ m.fqName[4] = "average"
          /\ m.value = 1 /\ CopiesIn(m, ch) = 1
    /\ Cardinality(Samples(ch)) = 1
    /\ HowMany(ch, "success") = 0

\* The collection panicked on the second resource of a response after the
\* sample of the first had been sent.
PanicOnSecondResourceSeen ==
    /\ pc = "panic"
    /\ Len(Deref(lastResp).Values) = 2
    /\ Deref(lastResp).Values[2].Namespace = Nil
    /\ Cardinality(Samples(ch)) = 1
    /\ \A m \in Samples(ch) :
          m.labels["instance"] = Deref(Deref(lastResp).Values[1].ResourceID)

\* An entity that lacks its name, unit or description is read only when a sample
\* of it is sent: the collection completes on an entity that lacks one of them
\* and has no value to publish, and sends no sample for it.
NamelessEntityPassedOver ==
    (pc = "done" /\ lastResp # Nil /\ ~Deref(lastResp).err) =>
        \A i \in DOMAIN Deref(lastResp).Values :
            \A j \in DOMAIN Deref(lastResp).Values[i].Values :
                LET metricValue == Deref(lastResp).Values[i].Values[j] IN
                ("" \in {metricValue.Name, metricValue.Unit, metricValue.DisplayDescription})
                    => ~\E m \in BagToSet(ch) :
                          /\ m.type = "sample"
                          /\ m.labels["instance"] = Deref(lastResp).Values[i].ResourceID
                          /\ m.fqName[3] = SanitizeName(metricValue.Name)

NamelessEntitySeen ==
    /\ pc = "done"
    /\ lastResp # Nil
    /\ ~Deref(lastResp).err
    /\ \E i \in DOMAIN Deref(lastResp).Values :
          Deref(lastResp).Values[i].Values[1].Name = ""

\* The inventory side: an answer that lacks an envelope field, is not a list of
\* rows, or has a zero count or no row ends the discovery in an error.
InventoryFaultsAreErrors ==
    \A i \in DOMAIN graphCalls :
        LET response == graphCalls[i].response IN
        (\/ response.ResultTruncated = Nil
         \/ response.Data = Nil
         \/ response.Count = Nil
         \/ ~Deref(response.Data).isArray
         \/ Deref(response.Data).rows = <<>>)
            => /\ i = Len(graphCalls)
               /\ discovery = "error"
               /\ pc = "done"

InventoryFaultSeen ==
    /\ graphCalls # <<>>
    /\ ~graphCalls[Len(graphCalls)].response.err
    /\ graphCalls[Len(graphCalls)].response.Data # Nil
    /\ Deref(graphCalls[Len(graphCalls)].response.Data).isArray
    /\ Deref(graphCalls[Len(graphCalls)].response.Data).rows = <<>>
    /\ graphCalls[Len(graphCalls)].response.Count = Ptr(1)
    /\ discovery = "error"


----------------------------------------------------------------------------
(* Properties of the metric names (specification SpecNames)                *)

Named == descs # Nil /\ Deref(descs).fqNames # <<>>

\* C38: the same (namespace, metric, aggregation, unit) tuple always yields the
\* same metric name, and two different tuples never yield the same name.
C38_DeterministicAndCollisionFree ==
    Named => LET d == Deref(descs) IN
             (d.tuples[1] = d.tuples[2]) <=> (d.fqNames[1] = d.fqNames[2])

\* Two tuples that differ in the namespace alone, "A.b" and "a/b", got one name.
C38_Collision ==
    /\ Named
    /\ LET d == Deref(descs) IN
          /\ d.tuples[1].namespace = <<"A", ".", "b">>
          /\ d.tuples[2] = [d.tuples[1] EXCEPT !.namespace = <<"a", "/", "b">>]
          /\ d.fqNames[1] = d.fqNames[2]

\* Two tuples that differ in namespace and metric, ("a", "b_cd") and ("a/b", "cd"),
\* got one name.
C38_CollisionAcrossParts ==
    /\ Named
    /\ LET d == Deref(descs) IN
          /\ d.tuples[1].namespace = <<"a">> /\ d.tuples[1].name = <<"b", "_", "c", "d">>
          /\ d.tuples[2].namespace = <<"a", "/", "b">> /\ d.tuples[2].name = <<"c", "d">>
          /\ d.tuples[1].metricType = d.tuples[2].metricType
          /\ d.tuples[1].unit = d.tuples[2].unit
          /\ d.fqNames[1] = d.fqNames[2]

\* A string the conversions leave as it is and that cannot be taken for two
\* parts of a name: lower-case letters only.
PlainString(str) == \A i \in DOMAIN str : \E l \in DOMAIN LowerCase : LowerCase[l] = str[i]

PlainTuple(t) == PlainString(t.namespace) /\ PlainString(t.name) /\ PlainString(t.unit)

\* What holds: equal tuples get equal names, and two different tuples of
\* lower-case letters get different names.
NamesOfPlainTuples ==
    Named => LET d == Deref(descs) IN
             /\ d.tuples[1] = d.tuples[2] => d.fqNames[1] = d.fqNames[2]
             /\ (PlainTuple(d.tuples[1]) /\ PlainTuple(d.tuples[2])
                    /\ d.tuples[1] # d.tuples[2]) => d.fqNames[1] # d.fqNames[2]


----------------------------------------------------------------------------
(* Properties of the timeout of an unparsable header (specification        *)
(* SpecDeadline)                                                           *)

\* The header is there and strconv.ParseInt returns an error for it.
Unparsable(v) == v # <<>> /\ ~ParseInt64(v).ok

\* t * 1000 - 500 is outside the int64 range: for t >= 0 the product has a
\* 64th bit or more, for t < 0 the magnitude |t| * 1000 + 500 exceeds 2^63.
Overflows(t) ==
    IF ~IsNegative(t)
    THEN MulCarry(t, 1000, 0) # 0 \/ IsNegative(MulLimbs(t, 1000, 0))
    ELSE \/ MulCarry(Negate(t), 1000, 500) # 0
         \/ /\ IsNegative(MulLimbs(Negate(t), 1000, 500))
            /\ MulLimbs(Negate(t), 1000, 500) # Int64Min

\* The seconds getProbeTimeout multiplies: the parsed value, 10 in place of 0.
SecondsMultiplied(v) ==
    IF v = <<>> \/ ParseInt64(v).v = Int64(0) THEN Int64(10) ELSE ParseInt64(v).v

\* C39: for a header that strconv.ParseInt rejects, be it no number or a number
\* outside the int64 range, the timeout is that of the 10 s default, 9.5 s; and
\* for no header does timeout*1000-500 leave the int64 range.
C39_UnparsableFallsBack ==
    timeout # Nil =>
        /\ Unparsable(header) => Deref(timeout) = Millisecond(Int64(9500))
        /\ ~Overflows(SecondsMultiplied(header))

\* C39 failing input: the header is one more than the largest int64, and the
\* timeout is -1.5 s.
C39_OutOfRangeHeader ==
    /\ header = <<"9", "2", "2", "3", "3", "7", "2", "0", "3", "6", "8", "5", "4", "7", "7", "5", "8", "0", "8">>
    /\ Unparsable(header)
    /\ Overflows(SecondsMultiplied(header))
    /\ timeout = Ptr(Millisecond(Int64(0 - 1500)))

\* A header within the range whose milliseconds are not: the timeout is negative.
C39_LargeHeaderWraps ==
    /\ header = <<"9", "2", "2", "3", "3", "7", "2", "0", "3", "6", "8", "5", "4", "7", "7", "6">>
    /\ ParseInt64(header).ok
    /\ Overflows(SecondsMultiplied(header))
    /\ timeout # Nil
    /\ IsNegative(Deref(timeout))

\* What holds: a header that is no number (a syntax error of strconv.ParseInt)
\* gets the timeout of the default, and its computation stays in range.
SyntaxErrorFallsBack ==
    (timeout # Nil /\ Unparsable(header) /\ ParseInt64(header).v = Int64(0))
        => /\ Deref(timeout) = Millisecond(Int64(9500))
           /\ ~Overflows(SecondsMultiplied(header))

SyntaxErrorSeen ==
    /\ header = <<"1", ".", "5">>
    /\ Unparsable(header)
    /\ timeout = Ptr(Millisecond(Int64(9500)))


----------------------------------------------------------------------------
(* Properties of the size of buckets and batches (specification Spec)      *)

\* Every (region, subscription) bucket of the inventory holds a resource ID.
BucketsHoldIDs ==
    \A l \in DOMAIN resources.Resources :
        \A sub \in DOMAIN resources.Resources[l] : Len(resources.Resources[l][sub]) >= 1

\* C40: every bucket of an inventory that discovery has returned holds at least
\* one resource ID, and no call of the metrics API carries an empty list of
\* resource IDs.
C40_NoEmptyBatch ==
    /\ discovery = "ok" => BucketsHoldIDs
    /\ \A i \in DOMAIN metricsCalls : Len(metricsCalls[i].resourceIDs) >= 1

\* C40 witness: a bucket of 51 resources was fetched to its end in two calls,
\* the second with the one ID that remained, and no third call followed.
C40_Witness ==
    /\ fetch = "ok"
    /\ pc = "done"
    /\ Len(metricsCalls) = 2
    /\ Len(metricsCalls[1].resourceIDs) = maxResourcesPerQuery
    /\ Len(metricsCalls[2].resourceIDs) = 1
    /\ BucketsHoldIDs

====
